---- MODULE Spec2Model ----
(***************************************************************************)
(* The OpenRouter gateway of backend/openrouter.py as a state machine:     *)
(* query_model (one non-streaming request) and query_model_stream (the     *)
(* retry loop fused with the line-by-line streaming generator).            *)
(*                                                                         *)
(* Text is modelled as a sequence of one-character strings, so that        *)
(* lower(), substring tests, f-string formatting and concatenation are     *)
(* computed as Python computes them.                                       *)
(*                                                                         *)
(* The second part is the streaming turn of backend/main.py                *)
(* (send_message_stream and chat_with_chairman), with its own              *)
(* specifications SpecTurn and SpecRanking.                                *)
(***************************************************************************)
EXTENDS Integers, Sequences, FiniteSets, TLC

VARIABLES
    api,            \* which gateway function this call runs
    max_retries,    \* parameter of query_model_stream
    retries,        \* local of query_model_stream
    should_retry,   \* local of query_model_stream
    finish_reason,  \* local of query_model_stream, per connection
    pc,             \* position of the generator
    yielded,        \* the chunks the generator has yielded to its caller, in order
    ended,          \* how the generator finished
    connections,    \* history: connections opened by client.stream
    waits,          \* history: the asyncio.sleep durations, in order
    attempts,       \* history: per connection, what the upstream sent on it
    last_error,     \* history: error_msg and error_code of the in-band error just
                    \* handled (cleared when the next connection opens)
    deltas,         \* upstream lines with a delta sent so far (bounded)
    q_pc,           \* position of query_model
    q_attempts,     \* history: requests posted by query_model
    q_result,       \* return value of query_model
    q_failure,      \* history: the exception query_model caught
    t_pc,           \* position of send_message_stream and its event_generator
    sink,           \* the events event_generator has yielded, in order
    messages,       \* the conversation's messages in the store
    title,          \* the conversation's title in the store
    is_first_message,   \* local of send_message_stream
    title_task,     \* local of event_generator
    stage1_results, \* local of event_generator
    stage2_results, \* local of event_generator
    label_to_model, \* local of event_generator
    aggregate_rankings, \* local of event_generator
    stage3_result,  \* local of event_generator
    sessions,       \* the sessions recorded on the leaderboard
    gen,            \* local state of the stage generator being iterated
    tokens_left,    \* token events the stage generators may still produce
    ballots,        \* the ranking texts the voters of this turn may produce
    calls,          \* history: Gateway calls started, per stage
    raised,         \* history: the step of event_generator that raised
    endpoint,       \* the streaming endpoint the request came to
    full_content,   \* local of chat_with_chairman's event_generator
    detail,         \* the model (a roster index, or RosterSize + 1 for the
                    \* chairman chain) whose events carry their payload in
                    \* this run: the model and a serial number; 0 for none
    produced,       \* history: the events about that model the stage
                    \* generators produced
    parallel,       \* the state of one query_models_parallel call
    triage,         \* the state of one analyze_for_triage or continue_triage call
    curator,        \* the context file and one apply_suggestion call on it
    leaderboard,    \* the leaderboard file and the calls made on it
    store,          \* the conversations and messages tables and the calls on them
    turns           \* streaming turns running at once on one conversation

vars == <<api, max_retries, retries, should_retry, finish_reason, pc, yielded,
          ended, connections, waits, attempts, last_error, deltas,
          q_pc, q_attempts, q_result, q_failure,
          t_pc, sink, messages, title, is_first_message, title_task,
          stage1_results, stage2_results, label_to_model, aggregate_rankings,
          stage3_result, sessions, gen, tokens_left, ballots, calls, raised,
          endpoint, full_content, detail, produced,
          parallel, triage, curator, leaderboard, store, turns>>

streamVars == <<max_retries, retries, should_retry, finish_reason, pc, yielded,
                ended, connections, waits, attempts, last_error, deltas>>

queryVars == <<q_pc, q_attempts, q_result, q_failure>>

gatewayVars == <<api, streamVars, queryVars>>

turnVars == <<t_pc, sink, messages, title, is_first_message, title_task,
              stage1_results, stage2_results, label_to_model,
              aggregate_rankings, stage3_result, sessions, gen, tokens_left,
              ballots, calls, raised, endpoint, full_content>>

chatVars == <<endpoint, full_content>>

forwardVars == <<detail, produced>>

\* the state of the components modelled on their own
restVars == <<parallel, triage, curator, leaderboard, store, turns>>

\* what a step of one of these components leaves alone
restOfParallel == <<gatewayVars, turnVars, forwardVars,
                    triage, curator, leaderboard, store, turns>>
restOfTriage == <<gatewayVars, turnVars, forwardVars,
                  parallel, curator, leaderboard, store, turns>>
restOfCurator == <<gatewayVars, turnVars, forwardVars,
                   parallel, triage, leaderboard, store, turns>>
restOfLeaderboard == <<gatewayVars, turnVars, forwardVars,
                       parallel, triage, curator, store, turns>>
restOfStore == <<gatewayVars, turnVars, forwardVars,
                 parallel, triage, curator, leaderboard, turns>>
restOfTurns == <<gatewayVars, turnVars, forwardVars,
                 parallel, triage, curator, leaderboard>>

----------------------------------------------------------------------------
(* Bounds of the model *)

\* largest max_retries a call is made with
MaxRetries == 2

\* delta lines the upstream sends over one call
MaxDeltas == 2

----------------------------------------------------------------------------
(* Text *)

UpperCase == <<"A", "B", "C", "D", "E", "F", "G", "H", "I", "J", "K", "L", "M", "N", "O", "P", "Q", "R", "S", "T", "U", "V", "W", "X", "Y", "Z">>

LowerCase == <<"a", "b", "c", "d", "e", "f", "g", "h", "i", "j", "k", "l", "m", "n", "o", "p", "q", "r", "s", "t", "u", "v", "w", "x", "y", "z">>

DigitChars == <<"0", "1", "2", "3", "4", "5", "6", "7", "8", "9">>

\* str.lower()
Lower(s) ==
    [i \in 1..Len(s) |->
        IF \E k \in 1..Len(UpperCase) : UpperCase[k] = s[i]
        THEN LowerCase[CHOOSE k \in 1..Len(UpperCase) : UpperCase[k] = s[i]]
        ELSE s[i]]

\* needle in hay
Contains(needle, hay) ==
    \E i \in 0..(Len(hay) - Len(needle)) : SubSeq(hay, i + 1, i + Len(needle)) = needle

\* str(n) of a non-negative integer
RECURSIVE IntToStr(_)
IntToStr(n) ==
    IF n < 10 THEN <<DigitChars[n + 1]>>
    ELSE IntToStr(n \div 10) \o <<DigitChars[(n % 10) + 1]>>

ErrorPrefix == <<"[", "E", "r", "r", "o", "r", ":", " ">>

ErrorSuffix == <<"]">>

\* f"[Error: {error_msg}]"
ErrorText(error_msg) == ErrorPrefix \o error_msg \o ErrorSuffix

S_overloaded == <<"o", "v", "e", "r", "l", "o", "a", "d", "e", "d">>

S_rate == <<"r", "a", "t", "e">>

S_internal_server == <<"i", "n", "t", "e", "r", "n", "a", "l", " ", "s", "e", "r", "v", "e", "r">>

TimeoutPrefix == <<"T", "i", "m", "e", "o", "u", "t", " ", "a", "f", "t", "e", "r", " ">>

\* the timeout parameter's default, 120.0, as the f-string prints it
TimeoutDefault == <<"1", "2", "0", ".", "0">>

\* f"Timeout after {timeout}s"
TimeoutMessage == TimeoutPrefix \o TimeoutDefault \o <<"s">>

StatusPrefix == <<"S", "t", "a", "t", "u", "s", " ">>

\* f"Status {e.response.status_code}"
StatusMessage(status_code) == StatusPrefix \o IntToStr(status_code)

----------------------------------------------------------------------------
(* What the upstream can send *)

None == "None"

MsgOverloaded == <<"O", "v", "e", "r", "l", "o", "a", "d", "e", "d">>

MsgRateLimit == <<"R", "A", "T", "E", " ", "l", "i", "m", "i", "t">>

MsgInternalServer == <<"I", "n", "t", "e", "r", "n", "a", "l", " ", "S", "e", "r", "v", "e", "r", " ", "E", "r", "r", "o", "r">>

MsgBadRequest == <<"B", "a", "d", " ", "r", "e", "q", "u", "e", "s", "t">>

\* the default of data['error'].get('message', 'Unknown error')
MsgUnknown == <<"U", "n", "k", "n", "o", "w", "n", " ", "e", "r", "r", "o", "r">>

ErrorMessages == {MsgOverloaded, MsgRateLimit, MsgInternalServer, MsgBadRequest, MsgUnknown}

\* 0 is the default of data['error'].get('code', 0)
ErrorCodes == {0, 400, 429, 500, 502, 503, 504}

\* statuses on which response.raise_for_status() raises
HttpErrorStatuses == {400, 401, 429, 500, 502, 503, 504}

\* str(e) of an exception that is neither a timeout nor an HTTP status error
ExceptionTexts == {<<"C", "o", "n", "n", "e", "c", "t", "i", "o", "n", " ", "r", "e", "s", "e", "t">>}

\* the lines with choices[0]: delta.get('content', ''), delta.get('reasoning', '')
\* and choice.get('finish_reason')
DeltaLines ==
    { [content |-> <<"a">>, reasoning |-> <<>>,    finish_reason |-> None],
      [content |-> <<"b">>, reasoning |-> <<>>,    finish_reason |-> None],
      [content |-> <<>>,    reasoning |-> <<"r">>, finish_reason |-> None],
      [content |-> <<"a">>, reasoning |-> <<"r">>, finish_reason |-> None],
      [content |-> <<>>,    reasoning |-> <<>>,    finish_reason |-> "stop"],
      [content |-> <<>>,    reasoning |-> <<>>,    finish_reason |-> "length"],
      [content |-> <<"b">>, reasoning |-> <<>>,    finish_reason |-> "length"] }

----------------------------------------------------------------------------
(* query_model_stream *)

\* a yielded value: the generator yields a bare str, the text and nothing else
Chunk(text) == [text |-> text]

RetryableCodes == {429, 500, 502, 503, 504}

\* a faulty variant: the substring tests without .lower()
IsRetryable_CaseSensitive(error_msg, error_code) ==
    \/ Contains(S_overloaded, error_msg)
    \/ Contains(S_rate, error_msg)
    \/ Contains(S_internal_server, error_msg)
    \/ error_code \in RetryableCodes

IsRetryable(error_msg, error_code) ==
    \/ Contains(S_overloaded, Lower(error_msg))
    \/ Contains(S_rate, Lower(error_msg))
    \/ Contains(S_internal_server, Lower(error_msg))
    \/ error_code \in RetryableCodes

\* a faulty variant: a constant backoff
WaitTime_Constant(n) == 3

\* wait_time = (retries + 1) * 3
WaitTime(n) == (n + 1) * 3

\* a faulty variant: the comparison off by one
WillRetry_OffByOne(is_retryable) == is_retryable /\ retries <= max_retries

\* is_retryable and retries < max_retries
WillRetry(is_retryable) == is_retryable /\ retries < max_retries

Last(s) == s[Len(s)]

NoError == [error_msg |-> <<>>, error_code |-> -1, seen |-> FALSE]

\* the history entry of the connection being read, closed with its outcome
Closed(kind, status_code) ==
    [attempts EXCEPT ![Len(attempts)] =
        [@ EXCEPT !.outcome = kind, !.status_code = status_code]]

\* yield f"[Error: ...]" followed by return
YieldErrorAndReturn(message, kind, status_code) ==
    /\ yielded' = Append(yielded, Chunk(ErrorText(message)))
    /\ pc' = "done"
    /\ ended' = "error"
    /\ attempts' = Closed(kind, status_code)

\* while retries <= max_retries: ... falls through when the condition is false
LoopExit ==
    /\ api = "query_model_stream"
    /\ pc = "loop"
    /\ ~(retries <= max_retries)
    /\ pc' = "done"
    /\ ended' = "loop_exit"
    /\ UNCHANGED <<api, max_retries, retries, should_retry, finish_reason, yielded,
                   connections, waits, attempts, last_error, deltas>>
    /\ UNCHANGED queryVars
    /\ UNCHANGED turnVars
    /\ UNCHANGED forwardVars
    /\ UNCHANGED restVars

\* should_retry = False; client.stream("POST", ...)
OpenConnection ==
    /\ api = "query_model_stream"
    /\ pc = "loop"
    /\ retries <= max_retries
    /\ should_retry' = FALSE
    /\ connections' = connections + 1
    /\ attempts' = Append(attempts,
                          [chunks |-> <<>>, content |-> <<>>, outcome |-> "open",
                           status_code |-> 0, yieldedBefore |-> Len(yielded)])
    /\ last_error' = NoError
    /\ pc' = "request"
    /\ UNCHANGED <<api, max_retries, retries, finish_reason, yielded, ended, waits,
                   deltas>>
    /\ UNCHANGED queryVars
    /\ UNCHANGED turnVars
    /\ UNCHANGED forwardVars
    /\ UNCHANGED restVars

\* response.raise_for_status() passes; finish_reason = None
ResponseOK ==
    /\ api = "query_model_stream"
    /\ pc = "request"
    /\ finish_reason' = None
    /\ pc' = "streaming"
    /\ UNCHANGED <<api, max_retries, retries, should_retry, yielded, ended,
                   connections, waits, attempts, last_error, deltas>>
    /\ UNCHANGED queryVars
    /\ UNCHANGED turnVars
    /\ UNCHANGED forwardVars
    /\ UNCHANGED restVars

\* response.raise_for_status() raises; except httpx.HTTPStatusError
HTTPStatusError ==
    /\ api = "query_model_stream"
    /\ pc = "request"
    /\ \E status_code \in HttpErrorStatuses :
          YieldErrorAndReturn(StatusMessage(status_code), "http", status_code)
    /\ UNCHANGED <<api, max_retries, retries, should_retry, finish_reason,
                   connections, waits, last_error, deltas>>
    /\ UNCHANGED queryVars
    /\ UNCHANGED turnVars
    /\ UNCHANGED forwardVars
    /\ UNCHANGED restVars

\* except httpx.TimeoutException, raised while connecting or while reading a line
TimeoutException ==
    /\ api = "query_model_stream"
    /\ pc \in {"request", "streaming"}
    /\ YieldErrorAndReturn(TimeoutMessage, "timeout", 0)
    /\ UNCHANGED <<api, max_retries, retries, should_retry, finish_reason,
                   connections, waits, last_error, deltas>>
    /\ UNCHANGED queryVars
    /\ UNCHANGED turnVars
    /\ UNCHANGED forwardVars
    /\ UNCHANGED restVars

\* except Exception, raised while connecting or while reading a line
OtherException ==
    /\ api = "query_model_stream"
    /\ pc \in {"request", "streaming"}
    /\ \E text \in ExceptionTexts : YieldErrorAndReturn(text, "exception", 0)
    /\ UNCHANGED <<api, max_retries, retries, should_retry, finish_reason,
                   connections, waits, last_error, deltas>>
    /\ UNCHANGED queryVars
    /\ UNCHANGED turnVars
    /\ UNCHANGED forwardVars
    /\ UNCHANGED restVars

\* a line that does not start with "data: ": only line_count, which is logged, changes
NonDataLine ==
    /\ api = "query_model_stream"
    /\ pc = "streaming"
    /\ UNCHANGED vars

\* except json.JSONDecodeError: continue
BadJsonLine ==
    /\ api = "query_model_stream"
    /\ pc = "streaming"
    /\ UNCHANGED vars

\* data_str.strip() == "[DONE]": return
DoneLine ==
    /\ api = "query_model_stream"
    /\ pc = "streaming"
    /\ pc' = "done"
    /\ ended' = "DONE"
    /\ attempts' = Closed("DONE", 0)
    /\ UNCHANGED <<api, max_retries, retries, should_retry, finish_reason, yielded,
                   connections, waits, last_error, deltas>>
    /\ UNCHANGED queryVars
    /\ UNCHANGED turnVars
    /\ UNCHANGED forwardVars
    /\ UNCHANGED restVars

\* 'error' in data, retried: sleep, break, fall out of the with blocks, retries += 1
RetryAfterError ==
    /\ should_retry' = TRUE
    /\ waits' = Append(waits, WaitTime(retries))
    /\ retries' = retries + 1
    /\ pc' = "loop"
    /\ attempts' = Closed("retried", 0)
    /\ UNCHANGED <<yielded, ended>>

\* 'error' in data
ErrorLine ==
    /\ api = "query_model_stream"
    /\ pc = "streaming"
    /\ \E error_msg \in ErrorMessages, error_code \in ErrorCodes :
          /\ last_error' = [error_msg |-> error_msg, error_code |-> error_code,
                            seen |-> TRUE]
          /\ IF WillRetry(IsRetryable(error_msg, error_code))
             THEN RetryAfterError
             ELSE /\ YieldErrorAndReturn(error_msg, "inband", 0)
                  /\ UNCHANGED <<should_retry, waits, retries>>
    /\ UNCHANGED <<api, max_retries, finish_reason, connections, deltas>>
    /\ UNCHANGED queryVars
    /\ UNCHANGED turnVars
    /\ UNCHANGED forwardVars
    /\ UNCHANGED restVars

\* the texts one delta makes the generator yield: content first, then reasoning
DeltaChunks(content, reasoning) ==
    (IF content # <<>> THEN <<Chunk(content)>> ELSE <<>>)
        \o (IF reasoning # <<>> THEN <<Chunk(reasoning)>> ELSE <<>>)

\* a line with choices[0].delta and/or choices[0].finish_reason
DeltaLine ==
    /\ api = "query_model_stream"
    /\ pc = "streaming"
    /\ deltas < MaxDeltas
    /\ \E line \in DeltaLines :
          /\ finish_reason' = IF line.finish_reason # None THEN line.finish_reason
                                                           ELSE finish_reason
          /\ yielded' = yielded \o DeltaChunks(line.content, line.reasoning)
          /\ attempts' = [attempts EXCEPT ![Len(attempts)] =
                            [@ EXCEPT !.chunks = @ \o DeltaChunks(line.content, line.reasoning),
                                      !.content = @ \o line.content]]
    /\ deltas' = deltas + 1
    /\ UNCHANGED <<api, max_retries, retries, should_retry, pc, ended, connections,
                   waits, last_error>>
    /\ UNCHANGED queryVars
    /\ UNCHANGED turnVars
    /\ UNCHANGED forwardVars
    /\ UNCHANGED restVars

\* response.aiter_lines() is exhausted; if not should_retry: return
EndOfLines ==
    /\ api = "query_model_stream"
    /\ pc = "streaming"
    /\ ~should_retry
    /\ pc' = "done"
    /\ ended' = "EOF"
    /\ attempts' = Closed("EOF", 0)
    /\ UNCHANGED <<api, max_retries, retries, should_retry, finish_reason, yielded,
                   connections, waits, last_error, deltas>>
    /\ UNCHANGED queryVars
    /\ UNCHANGED turnVars
    /\ UNCHANGED forwardVars
    /\ UNCHANGED restVars

----------------------------------------------------------------------------
(* query_model *)

\* Python's None as a return value
NoneResult == [type |-> "NoneType"]

NoFailure == [kind |-> None, status_code |-> 0]

\* message.get('content') and message.get('reasoning_details')
MessageContents == {<<"a">>, <<"b">>}

ReasoningDetails == {None, "details"}

\* one client.post, then return: the function has no loop
QueryReturn(result, failure) ==
    /\ api = "query_model"
    /\ q_pc = "start"
    /\ q_attempts' = q_attempts + 1
    /\ q_result' = result
    /\ q_failure' = failure
    /\ q_pc' = "done"
    /\ UNCHANGED <<api>>
    /\ UNCHANGED streamVars
    /\ UNCHANGED turnVars
    /\ UNCHANGED forwardVars
    /\ UNCHANGED restVars

\* return {'content': ..., 'reasoning_details': ...}
QueryModelOK ==
    \E content \in MessageContents, reasoning_details \in ReasoningDetails :
        QueryReturn([type |-> "dict", content |-> content,
                     reasoning_details |-> reasoning_details], NoFailure)

\* except httpx.TimeoutException: return None
QueryModelTimeout ==
    QueryReturn(NoneResult, [kind |-> "timeout", status_code |-> 0])

\* except httpx.HTTPStatusError: return None
QueryModelHTTPStatusError ==
    \E status_code \in HttpErrorStatuses :
        QueryReturn(NoneResult, [kind |-> "http", status_code |-> status_code])

\* except Exception: return None
QueryModelException ==
    QueryReturn(NoneResult, [kind |-> "other", status_code |-> 0])

----------------------------------------------------------------------------
(* The state of a streaming turn while no turn runs *)

\* a Python dict with no key
EmptyDict == [k \in {} |-> None]

\* no stage generator is being iterated
NoGenerator == [stage |-> 0]

NoCalls == [stage1 |-> 0, stage2 |-> 0, stage3 |-> <<>>]

\* 'title': 'New Conversation'
NewConversationTitle == "New Conversation"

NoForward ==
    /\ detail = 0
    /\ produced = <<>>

\* nothing of the components modelled on their own is in use
\* a component that is not in use
Unused == [pc |-> "unused"]

\* only component c is in use
NoRestExcept(c) ==
    /\ IF c = "parallel" THEN TRUE ELSE parallel = Unused
    /\ IF c = "triage" THEN TRUE ELSE triage = Unused
    /\ IF c = "curator" THEN TRUE ELSE curator = Unused
    /\ IF c = "leaderboard" THEN TRUE ELSE leaderboard = Unused
    /\ IF c \in {"store", "turns"} THEN TRUE ELSE store = Unused
    /\ IF c = "turns" THEN TRUE ELSE turns = Unused

NoRest == NoRestExcept("")

NoTurn ==
    /\ t_pc = "idle"
    /\ sink = <<>>
    /\ messages = <<>>
    /\ title = NewConversationTitle
    /\ is_first_message = FALSE
    /\ title_task = None
    /\ stage1_results = <<>>
    /\ stage2_results = <<>>
    /\ label_to_model = EmptyDict
    /\ aggregate_rankings = <<>>
    /\ stage3_result = EmptyDict
    /\ sessions = <<>>
    /\ gen = NoGenerator
    /\ tokens_left = 0
    /\ ballots = {}
    /\ calls = NoCalls
    /\ raised = None
    /\ endpoint = None
    /\ full_content = <<>>
    /\ NoForward

----------------------------------------------------------------------------

Init ==
    /\ api \in {"query_model", "query_model_stream"}
    /\ max_retries \in IF api = "query_model_stream" THEN -1..MaxRetries ELSE {0}
    /\ retries = 0
    /\ should_retry = FALSE
    /\ finish_reason = None
    /\ pc = "loop"
    /\ yielded = <<>>
    /\ ended = None
    /\ connections = 0
    /\ waits = <<>>
    /\ attempts = <<>>
    /\ last_error = NoError
    /\ deltas = 0
    /\ q_pc = "start"
    /\ q_attempts = 0
    /\ q_result = NoneResult
    /\ q_failure = NoFailure
    /\ NoTurn
    /\ NoRest

Next ==
    \/ LoopExit
    \/ OpenConnection
    \/ ResponseOK
    \/ HTTPStatusError
    \/ TimeoutException
    \/ OtherException
    \/ NonDataLine
    \/ BadJsonLine
    \/ DoneLine
    \/ ErrorLine
    \/ DeltaLine
    \/ EndOfLines
    \/ QueryModelOK
    \/ QueryModelTimeout
    \/ QueryModelHTTPStatusError
    \/ QueryModelException

Spec == Init /\ [][Next]_vars

----------------------------------------------------------------------------
(* Properties of query_model_stream *)

IsStream == api = "query_model_stream"

IsErrorChunk(chunk) ==
    /\ Len(chunk.text) >= Len(ErrorPrefix)
    /\ SubSeq(chunk.text, 1, Len(ErrorPrefix)) = ErrorPrefix

NumErrorChunks == Cardinality({i \in 1..Len(yielded) : IsErrorChunk(yielded[i])})

EndsWithErrorChunk == Len(yielded) > 0 /\ IsErrorChunk(Last(yielded))

\* the texts of a sequence of chunks, concatenated
RECURSIVE ConcatText(_)
ConcatText(chunks) ==
    IF chunks = <<>> THEN <<>> ELSE Head(chunks).text \o ConcatText(Tail(chunks))

\* the retry classification of in-band errors as section 4.1 of the specification
\* words it: message contains "overloaded" or "rate", or code in 429/500/502/503/504
RetryableAsSpecified(err) ==
    \/ Contains(S_overloaded, Lower(err.error_msg))
    \/ Contains(S_rate, Lower(err.error_msg))
    \/ err.error_code \in {429, 500, 502, 503, 504}

\* the same with the third message pattern, "internal server"
RetryableWithInternalServer(err) ==
    \/ RetryableAsSpecified(err)
    \/ Contains(S_internal_server, Lower(err.error_msg))

\* every connection before the current one was left by a retry
EarlierAllRetried ==
    \A k \in 1..(Len(attempts) - 1) : attempts[k].outcome = "retried"

\* C1: a reconnect after an in-band error happens only if nothing has been
\* yielded on this call; once a chunk has been yielded, an in-band error ends the
\* stream with an error marker, so no earlier content is emitted a second time.
C1_ReconnectOnlyBeforeAnyChunk ==
    IsStream =>
        \A k \in 1..Len(attempts) :
            attempts[k].outcome = "retried" =>
                attempts[k].yieldedBefore + Len(attempts[k].chunks) = 0

\* C2: with max_retries = 2 and an upstream that answers the first two
\* connections with a retryable in-band error before any content and the third
\* with content then [DONE], there are exactly 3 connections, the waits are 3s
\* then 6s, no error chunk is yielded and exactly the third connection's content
\* is yielded.
C2_RetryTwiceThenSucceed ==
    (IsStream /\ max_retries = 2 /\ Len(attempts) \in 1..3 /\ EarlierAllRetried
       /\ \A k \in 1..(Len(attempts) - 1) : attempts[k].chunks = <<>>) =>
        /\ (Len(attempts) <= 2 /\ last_error.seen /\ RetryableAsSpecified(last_error)
              /\ Last(attempts).chunks = <<>>) =>
                /\ pc = "loop"
                /\ yielded = <<>>
                /\ connections = Len(attempts)
                /\ waits = [k \in 1..Len(attempts) |-> 3 * k]
        /\ (Len(attempts) = 3 /\ ended = "DONE") =>
                /\ connections = 3
                /\ waits = <<3, 6>>
                /\ NumErrorChunks = 0
                /\ yielded = attempts[3].chunks

C2_Witness ==
    /\ IsStream /\ max_retries = 2 /\ Len(attempts) = 3 /\ EarlierAllRetried
    /\ attempts[1].chunks = <<>> /\ attempts[2].chunks = <<>>
    /\ ended = "DONE" /\ attempts[3].content # <<>>
    /\ waits = <<3, 6>> /\ yielded = attempts[3].chunks

\* C3: a finished stream ended either normally after [DONE], with no error chunk,
\* or with an error chunk as its last chunk; an upstream that ends without [DONE]
\* gives a final error chunk.
C3_DoneOrFinalError ==
    (IsStream /\ max_retries >= 0 /\ pc = "done") =>
        \/ ended = "DONE" /\ NumErrorChunks = 0
        \/ EndsWithErrorChunk

\* what is left of a call: connections still allowed, delta lines the upstream
\* still has, and the position within the current connection
Variant ==
    IF pc = "done" THEN 0
    ELSE 1 + 3 * (max_retries - retries) + (MaxDeltas - deltas)
           + (CASE pc = "loop" -> 2 [] pc = "request" -> 1 [] OTHER -> 0)

\* the stream's bound on connections, and its error chunk
C4_Bounded ==
    (IsStream /\ max_retries >= 0) =>
        /\ connections <= max_retries + 1
        /\ connections = Len(attempts)
        /\ NumErrorChunks <= 1
        /\ NumErrorChunks = 1 => pc = "done" /\ EndsWithErrorChunk
        /\ (Len(attempts) > 0
              /\ Last(attempts).outcome \in {"timeout", "http", "exception"}) =>
                pc = "done" /\ NumErrorChunks = 1
        /\ (last_error.seen
              /\ (~RetryableWithInternalServer(last_error)
                    \/ Len(attempts) = max_retries + 1)) =>
                pc = "done" /\ NumErrorChunks = 1

\* every step of the call uses up part of what is left, and a finished call
\* takes no step
C4_Progress ==
    (IsStream /\ max_retries >= 0) => (Variant' < Variant /\ Variant' >= 0)

C5_RetryableHttpStatusIsRetried ==
    (IsStream /\ max_retries >= 0) =>
        \A k \in 1..Len(attempts) :
            (attempts[k].outcome = "http"
               /\ attempts[k].status_code \in {429, 500, 502, 503, 504}
               /\ attempts[k].yieldedBefore = 0) =>
                k = max_retries + 1

\* C6 as claimed: an in-band error is retryable if and only if its message
\* contains "overloaded" or "rate" (any case) or its code is 429, 500, 502, 503
\* or 504; any other in-band error gives the final error chunk at once, with no
\* reconnect.
C6_RetryableIffOverloadedRateOrCode ==
    (IsStream /\ last_error.seen) =>
        /\ attempts[Len(attempts)].outcome = "retried" => RetryableAsSpecified(last_error)
        /\ (RetryableAsSpecified(last_error) /\ Len(attempts) <= max_retries) =>
              attempts[Len(attempts)].outcome = "retried"

\* C6 as amended: an in-band error is retryable if and only if its message
\* contains "overloaded", "rate" or "internal server" (any case) or its code is
\* 429, 500, 502, 503 or 504; any other in-band error gives the final error chunk
\* at once, with no reconnect, and carries the upstream's message.
C6_RetryableIffPatternOrCode ==
    (IsStream /\ last_error.seen) =>
        /\ attempts[Len(attempts)].outcome = "retried" =>
              RetryableWithInternalServer(last_error)
        /\ (RetryableWithInternalServer(last_error) /\ Len(attempts) <= max_retries) =>
              /\ attempts[Len(attempts)].outcome = "retried"
              /\ pc = "loop"
        /\ ~RetryableWithInternalServer(last_error) =>
              /\ pc = "done"
              /\ Last(yielded) = Chunk(ErrorText(last_error.error_msg))
              /\ connections = Len(attempts)

C6_Witness ==
    /\ IsStream /\ last_error.seen /\ pc = "loop"
    /\ last_error.error_msg = MsgInternalServer /\ last_error.error_code = 400
    /\ attempts[Len(attempts)].outcome = "retried"

\* C7: retries do not show in the chunk sequence: when a call succeeds after
\* retried failures, the caller has received exactly the chunks of the successful
\* connection.
C7_RetriesUnobservable ==
    (IsStream /\ ended = "DONE" /\ EarlierAllRetried) =>
        yielded = Last(attempts).chunks

ChunkKinds == {"content", "reasoning", "error"}

IsTagged(chunk) == "kind" \in DOMAIN chunk /\ chunk.kind \in ChunkKinds

\* the chunks the caller can tell to be content
ContentChunks == SelectSeq(yielded, LAMBDA c : IsTagged(c) /\ c.kind = "content")

\* the delta.content values received, connection by connection
RECURSIVE ReceivedContent(_)
ReceivedContent(as) ==
    IF as = <<>> THEN <<>> ELSE Head(as).content \o ReceivedContent(Tail(as))

\* C8: every yielded chunk is tagged with its kind (content, reasoning, error), and
\* the concatenation of the content chunks is the concatenation of the
\* delta.content values received, without reasoning or error-marker text.
C8_ChunksTaggedByKind ==
    IsStream =>
        /\ \A i \in 1..Len(yielded) : IsTagged(yielded[i])
        /\ ConcatText(ContentChunks) = ReceivedContent(attempts)

\* what the caller of the generator can tell about how the stream went
ReportedOutcome == IF EndsWithErrorChunk THEN "error" ELSE "success"

\* C9: a stream whose upstream reported finish_reason "length" before [DONE] is
\* reported to the caller as truncated, not as a plain success.
C9_TruncationReported ==
    (IsStream /\ pc = "done" /\ ended = "DONE" /\ finish_reason = "length") =>
        ReportedOutcome # "success"

----------------------------------------------------------------------------
(* Properties of query_model *)

\* C10: query_model retries a retryable failure (HTTP 429/500/502/503/504) before
\* it reports it, and its failure result tells timeout, HTTP error and other apart.
C10_QueryRetriesAndTypedFailure ==
    (api = "query_model" /\ q_pc = "done" /\ q_failure.kind # None) =>
        /\ (q_failure.kind = "http"
              /\ q_failure.status_code \in {429, 500, 502, 503, 504}) => q_attempts > 1
        /\ "failure" \in DOMAIN q_result
        /\ q_result.failure = q_failure.kind

----------------------------------------------------------------------------
(***************************************************************************)
(* The streaming turn: send_message_stream of backend/main.py and its      *)
(* event_generator, iterating the three stage generators of                *)
(* backend/council.py.  The stage generators are described by sections     *)
(* 4.2 to 4.4 of the specification; event_generator handles one of their   *)
(* events at a time, so each action below is one event of a generator      *)
(* together with what event_generator does with it.                        *)
(*                                                                         *)
(* The store (backend/storage.py) and the leaderboard are collaborators:   *)
(* a call to them completes or raises.  (With the storage.py of this tree  *)
(* the calls of main.py lines 207 and 273 pass no user_id.)                *)
(***************************************************************************)

\* models of the roster that take part in a turn
RosterSize == 2

\* token events the stage generators produce over one turn
MaxTokens == 1

COUNCIL_MODELS ==
    <<"google/gemini-2.0-flash-001", "openai/gpt-4o-2024-11-20",
      "anthropic/claude-3.5-sonnet", "x-ai/grok-2-1212",
      "deepseek/deepseek-chat">>

\* variant of CHAIRMAN_MODELS: a fallback model listed before the primary
CHAIRMAN_MODELS_FallbackFirst ==
    <<"google/gemini-2.0-flash-001", "anthropic/claude-3.5-sonnet",
      "openai/gpt-4o-2024-11-20">>

CHAIRMAN_MODELS ==
    <<"anthropic/claude-3.5-sonnet", "google/gemini-2.0-flash-001",
      "openai/gpt-4o-2024-11-20">>

\* the roster positions in use; position i stands for COUNCIL_MODELS[i]
Roster == 1..RosterSize

Labels == <<"A", "B", "C", "D", "E">>

\* the messages of a conversation that already had one turn
EarlierTurn == <<[role |-> "user"], [role |-> "assistant", turn |-> 0]>>

\* the entries of a Stage-1 set that are ok, in the order of the set
RECURSIVE OkModels(_)
OkModels(results) ==
    IF results = <<>> THEN <<>>
    ELSE LET rest == OkModels(SubSeq(results, 1, Len(results) - 1))
             r == results[Len(results)]
         IN  IF r.status = "ok" THEN Append(rest, r.model) ELSE rest

Range(seq) == {seq[i] : i \in 1..Len(seq)}

\* conversation = storage.get_conversation(...); is_first_message = ...
SendMessageStream ==
    /\ endpoint = "message/stream"
    /\ t_pc = "request"
    /\ is_first_message' = (Len(messages) = 0)
    /\ t_pc' = "start"
    /\ UNCHANGED <<sink, gen, messages, title, title_task, stage1_results,
                   stage2_results, label_to_model, aggregate_rankings,
                   stage3_result, sessions, tokens_left, ballots, calls, raised>>
    /\ UNCHANGED gatewayVars
    /\ UNCHANGED forwardVars
    /\ UNCHANGED restVars
    /\ UNCHANGED chatVars

\* an event of a stage generator about model m: {'type': ..., 'model': m},
\* the n-th about this model
Of(type, m) ==
    IF detail = m
    THEN [type |-> type, model |-> m, seq |-> Len(produced) + 1]
    ELSE [type |-> type]

\* the chunks of model m are followed in this run
Observed(m) == detail \in {0, m}

HasPayload(event) == "model" \in DOMAIN event

\* the generator produced this event
Produce(event) ==
    /\ produced' = IF HasPayload(event) THEN Append(produced, event)
                   ELSE produced
    /\ UNCHANGED detail

\* section 4.2: one task per roster model, none started
Stage1Generator ==
    [stage |-> 1, task |-> [m \in Roster |-> "idle"], order |-> <<>>,
     barrier |-> FALSE]

\* storage.add_user_message; the title task; yield stage1_start
BeginStage1 ==
    /\ t_pc = "start"
    /\ messages' = Append(messages, [role |-> "user"])
    /\ title_task' = IF is_first_message THEN "pending" ELSE None
    /\ sink' = Append(sink, [type |-> "stage1_start"])
    /\ stage1_results' = <<>>
    /\ gen' = Stage1Generator
    /\ t_pc' = "stage1"
    /\ UNCHANGED <<title, is_first_message, stage2_results, label_to_model,
                   aggregate_rankings, stage3_result, sessions, tokens_left,
                   ballots, calls, raised>>
    /\ UNCHANGED gatewayVars
    /\ UNCHANGED forwardVars
    /\ UNCHANGED restVars
    /\ UNCHANGED chatVars

\* variant of Stage1Complete: the event is built before stage1_results is assigned
Stage1Complete_StaleResults(event) ==
    [type |-> "stage1_complete", data |-> stage1_results]

\* yield {'type': 'stage1_complete', 'data': stage1_results}
Stage1Complete(event) ==
    [type |-> "stage1_complete", data |-> event.data]

\* variant of Stage1Yields: every event of the generator is passed on as it is
Stage1Yields_ForwardAll(event) == <<event>>

\* the if/elif chain of the Stage-1 loop: what is yielded for one event
Stage1Yields(event) ==
    IF event.type \in {"stage1_token", "stage1_model_complete",
                       "stage1_model_error"}
    THEN <<event>>
    ELSE IF event.type = "stage1_all_complete"
    THEN <<Stage1Complete(event)>>
    ELSE <<>>

\* one iteration of async for event in stage1_stream_responses(...)
Stage1Event(event, generator) ==
    /\ t_pc = "stage1"
    /\ sink' = sink \o Stage1Yields(event)
    /\ Produce(event)
    /\ stage1_results' = IF event.type = "stage1_all_complete"
                         THEN event.data ELSE stage1_results
    /\ gen' = generator
    /\ UNCHANGED <<t_pc, messages, title, is_first_message, title_task,
                   stage2_results, label_to_model, aggregate_rankings,
                   stage3_result, sessions, ballots, raised>>
    /\ UNCHANGED gatewayVars
    /\ UNCHANGED restVars
    /\ UNCHANGED chatVars

\* a roster model's stream call is launched: its start signal
Stage1ModelStart ==
    \E m \in Roster :
        /\ t_pc = "stage1"
        /\ gen.task[m] = "idle"
        /\ calls' = [calls EXCEPT !.stage1 = @ + 1]
        /\ UNCHANGED tokens_left
        /\ Stage1Event(Of("stage1_model_start", m),
                       [gen EXCEPT !.task[m] = "running"])

\* a content or reasoning chunk of a running model
Stage1Token ==
    \E m \in Roster :
        /\ t_pc = "stage1"
        /\ gen.task[m] = "running"
        /\ tokens_left > 0
        /\ Observed(m)
        /\ tokens_left' = tokens_left - 1
        /\ UNCHANGED calls
        /\ Stage1Event(Of("stage1_token", m), gen)

\* the terminal signal of a model: complete (ok) or error
Stage1ModelDone ==
    \E m \in Roster, status \in {"ok", "error"} :
        /\ t_pc = "stage1"
        /\ gen.task[m] = "running"
        /\ UNCHANGED <<calls, tokens_left>>
        /\ Stage1Event(Of(IF status = "ok" THEN "stage1_model_complete"
                          ELSE "stage1_model_error", m),
                       [gen EXCEPT !.task[m] = status,
                                   !.order = Append(@, m)])

\* final ModelResponse of a roster model
ModelResponse(m, status) ==
    [model |-> m, status |-> status,
     text |-> IF status = "ok" THEN "answer" ELSE ""]

\* all tasks are terminal: the all-complete signal, in roster order
Stage1AllComplete ==
    /\ t_pc = "stage1"
    /\ ~gen.barrier
    /\ \A m \in Roster : gen.task[m] \in {"ok", "error"}
    /\ UNCHANGED <<calls, tokens_left>>
    /\ Stage1Event([type |-> "stage1_all_complete",
                    data |-> [m \in Roster |-> ModelResponse(m, gen.task[m])]],
                   [gen EXCEPT !.barrier = TRUE])

\* section 4.3, step 1: labels in roster order over the ok set
LabelToModel(results) ==
    LET oks == OkModels(results)
    IN  [l \in {Labels[i] : i \in 1..Len(oks)} |->
            oks[CHOOSE i \in 1..Len(oks) : Labels[i] = l]]

\* section 4.3: one ranking query per contributing model, none started
Stage2Generator(results) ==
    [stage |-> 2,
     voters |-> OkModels(results),
     task |-> [m \in Range(OkModels(results)) |-> "idle"],
     raw_text |-> [m \in Range(OkModels(results)) |-> <<>>],
     label_to_model |-> LabelToModel(results),
     barrier |-> FALSE]

\* the Stage-1 loop is over: yield stage2_start and iterate
\* stage2_stream_rankings(request.content, stage1_results, ...)
EnterStage2 ==
    /\ t_pc = "stage1"
    /\ sink' = Append(sink, [type |-> "stage2_start"])
    /\ stage2_results' = <<>>
    /\ label_to_model' = EmptyDict
    /\ aggregate_rankings' = <<>>
    /\ gen' = Stage2Generator(stage1_results)
    /\ t_pc' = "stage2"
    /\ UNCHANGED <<messages, title, is_first_message, title_task,
                   stage1_results, stage3_result, sessions, tokens_left,
                   ballots, calls, raised>>
    /\ UNCHANGED gatewayVars
    /\ UNCHANGED forwardVars
    /\ UNCHANGED restVars
    /\ UNCHANGED chatVars

\* stage1_stream_responses is exhausted after its all-complete signal
Stage1Ends ==
    /\ t_pc = "stage1"
    /\ gen.barrier
    /\ EnterStage2

\* stage1_stream_responses is exhausted without an all-complete signal
Stage1EndsEarly ==
    /\ t_pc = "stage1"
    /\ ~gen.barrier
    /\ EnterStage2

\* variant of Stage2Complete: the metadata is built before the locals are assigned
Stage2Complete_StaleMetadata(event) ==
    [type |-> "stage2_complete", data |-> event.data,
     metadata |-> [label_to_model |-> label_to_model,
                   aggregate_rankings |-> aggregate_rankings]]

\* yield {'type': 'stage2_complete', 'data': ..., 'metadata': {...}}
Stage2Complete(event) ==
    [type |-> "stage2_complete", data |-> event.data,
     metadata |-> [label_to_model |-> event.label_to_model,
                   aggregate_rankings |-> event.aggregate_rankings]]

\* variant of Stage2Yields: a passed-on event is rebuilt from its type alone
Stage2Yields_TypeOnly(event) ==
    IF event.type \in {"stage2_token", "stage2_model_complete",
                       "stage2_model_error"}
    THEN <<[type |-> event.type]>>
    ELSE IF event.type = "stage2_all_complete"
    THEN <<Stage2Complete(event)>>
    ELSE <<>>

\* the if/elif chain of the Stage-2 loop: what is yielded for one event
Stage2Yields(event) ==
    IF event.type \in {"stage2_token", "stage2_model_complete",
                       "stage2_model_error"}
    THEN <<event>>
    ELSE IF event.type = "stage2_all_complete"
    THEN <<Stage2Complete(event)>>
    ELSE <<>>

\* one iteration of async for event in stage2_stream_rankings(...)
Stage2Event(event, generator) ==
    /\ t_pc = "stage2"
    /\ sink' = sink \o Stage2Yields(event)
    /\ Produce(event)
    /\ stage2_results' = IF event.type = "stage2_all_complete"
                         THEN event.data ELSE stage2_results
    /\ label_to_model' = IF event.type = "stage2_all_complete"
                         THEN event.label_to_model ELSE label_to_model
    /\ aggregate_rankings' = IF event.type = "stage2_all_complete"
                             THEN event.aggregate_rankings
                             ELSE aggregate_rankings
    /\ gen' = generator
    /\ UNCHANGED <<t_pc, messages, title, is_first_message, title_task,
                   stage1_results, stage3_result, sessions, ballots, raised>>
    /\ UNCHANGED gatewayVars
    /\ UNCHANGED restVars
    /\ UNCHANGED chatVars

\* a voter's ranking query is launched: its start signal
Stage2ModelStart ==
    /\ t_pc = "stage2"
    /\ \E m \in DOMAIN gen.task :
        /\ gen.task[m] = "idle"
        /\ calls' = [calls EXCEPT !.stage2 = @ + 1]
        /\ UNCHANGED tokens_left
        /\ Stage2Event(Of("stage2_model_start", m),
                       [gen EXCEPT !.task[m] = "running"])

\* a chunk of a running voter
Stage2Token ==
    /\ t_pc = "stage2"
    /\ \E m \in DOMAIN gen.task :
        /\ gen.task[m] = "running"
        /\ tokens_left > 0
        /\ Observed(m)
        /\ tokens_left' = tokens_left - 1
        /\ UNCHANGED calls
        /\ Stage2Event(Of("stage2_token", m), gen)

\* a voter's stream ended: its ranking text is complete
Stage2ModelComplete ==
    /\ t_pc = "stage2"
    /\ \E m \in DOMAIN gen.task, raw_text \in ballots :
        /\ gen.task[m] = "running"
        /\ UNCHANGED <<calls, tokens_left>>
        /\ Stage2Event(Of("stage2_model_complete", m),
                       [gen EXCEPT !.task[m] = "ok",
                                   !.raw_text[m] = raw_text])

\* a voter's stream ended with an error
Stage2ModelError ==
    /\ t_pc = "stage2"
    /\ \E m \in DOMAIN gen.task :
        /\ gen.task[m] = "running"
        /\ UNCHANGED <<calls, tokens_left>>
        /\ Stage2Event(Of("stage2_model_error", m),
                       [gen EXCEPT !.task[m] = "error"])

\* section 4.3, step 4: the label tokens of a ranking text, in order
ParseRanking(raw_text) ==
    SelectSeq(raw_text, LAMBDA word : word \in Range(Labels))

\* 1-based position of a label in an ordered label list
Position(label, ordered_labels) ==
    CHOOSE i \in 1..Len(ordered_labels) :
        /\ ordered_labels[i] = label
        /\ \A j \in 1..(i - 1) : ordered_labels[j] # label

RankingSubmission(m, raw_text) ==
    [voter_model_id |-> m, ordered_labels |-> ParseRanking(raw_text),
     raw_text |-> raw_text]

\* section 4.3, steps 3 and 4: the valid submissions, voters in roster order
RECURSIVE Submissions(_, _)
Submissions(generator, voters) ==
    IF voters = <<>> THEN <<>>
    ELSE LET m == voters[Len(voters)]
             rest == Submissions(generator, SubSeq(voters, 1, Len(voters) - 1))
         IN  IF /\ generator.task[m] = "ok"
                /\ ParseRanking(generator.raw_text[m]) # <<>>
             THEN Append(rest, RankingSubmission(m, generator.raw_text[m]))
             ELSE rest

RECURSIVE SumOfPositions(_, _)
SumOfPositions(label, submissions) ==
    IF submissions = <<>> THEN 0
    ELSE LET sub == submissions[Len(submissions)]
             rest == SumOfPositions(label,
                         SubSeq(submissions, 1, Len(submissions) - 1))
         IN  IF label \in Range(sub.ordered_labels)
             THEN rest + Position(label, sub.ordered_labels) ELSE rest

VoteCount(label, submissions) ==
    Cardinality({i \in 1..Len(submissions) :
                    label \in Range(submissions[i].ordered_labels)})

\* AggregateRanking of a labelled model; average_rank is position_sum / vote_count
AggregateRanking(label, mapping, submissions) ==
    [model_id |-> mapping[label],
     position_sum |-> SumOfPositions(label, submissions),
     vote_count |-> VoteCount(label, submissions)]

\* ascending mean position, then fewer missing votes, then roster order
RankedBefore(a, b) ==
    \/ a.position_sum * b.vote_count < b.position_sum * a.vote_count
    \/ /\ a.position_sum * b.vote_count = b.position_sum * a.vote_count
       /\ \/ a.vote_count > b.vote_count
          \/ a.vote_count = b.vote_count /\ a.model_id < b.model_id

RECURSIVE SortRankings(_)
SortRankings(entries) ==
    IF entries = {} THEN <<>>
    ELSE LET first == CHOOSE a \in entries :
                          \A b \in entries \ {a} : RankedBefore(a, b)
         IN  <<first>> \o SortRankings(entries \ {first})

\* variant of calculate_aggregate_rankings: one entry per vote for a first
\* place, the votes of different submissions not being merged
calculate_aggregate_rankings_Unmerged(submissions, mapping) ==
    LET known(sub) == {l \in DOMAIN mapping : l \in Range(sub.ordered_labels)}
        first(sub) == CHOOSE l \in known(sub) :
                          \A k \in known(sub) :
                              Position(l, sub.ordered_labels)
                                  <= Position(k, sub.ordered_labels)
        counted == SelectSeq(submissions, LAMBDA sub : known(sub) # {})
    IN  [i \in 1..Len(counted) |->
            AggregateRanking(first(counted[i]), mapping, submissions)]

\* section 4.3, step 5
calculate_aggregate_rankings(submissions, mapping) ==
    SortRankings({AggregateRanking(l, mapping, submissions) :
                    l \in {k \in DOMAIN mapping :
                              VoteCount(k, submissions) > 0}})

\* every voter is terminal: the completed-stage signal
Stage2AllComplete ==
    /\ t_pc = "stage2"
    /\ ~gen.barrier
    /\ \A m \in DOMAIN gen.task : gen.task[m] \in {"ok", "error"}
    /\ UNCHANGED <<calls, tokens_left>>
    /\ LET submissions == Submissions(gen, gen.voters)
       IN  Stage2Event([type |-> "stage2_all_complete",
                        data |-> submissions,
                        label_to_model |-> gen.label_to_model,
                        aggregate_rankings |->
                            calculate_aggregate_rankings(submissions,
                                                         gen.label_to_model)],
                       [gen EXCEPT !.barrier = TRUE])

\* section 4.4: the chain walk before its first candidate
Stage3Generator ==
    [stage |-> 3, index |-> 1, running |-> FALSE, content |-> <<>>,
     done |-> FALSE]

\* the Stage-2 loop is over: yield stage3_start and iterate
\* stage3_stream_synthesis(request.content, stage1_results, stage2_results, ...)
EnterStage3 ==
    /\ t_pc = "stage2"
    /\ sink' = Append(sink, [type |-> "stage3_start"])
    /\ stage3_result' = EmptyDict
    /\ gen' = Stage3Generator
    /\ t_pc' = "stage3"
    /\ UNCHANGED <<messages, title, is_first_message, title_task,
                   stage1_results, stage2_results, label_to_model,
                   aggregate_rankings, sessions, tokens_left, ballots, calls,
                   raised>>
    /\ UNCHANGED gatewayVars
    /\ UNCHANGED forwardVars
    /\ UNCHANGED restVars
    /\ UNCHANGED chatVars

\* stage2_stream_rankings is exhausted after its all-complete signal
Stage2Ends ==
    /\ t_pc = "stage2"
    /\ gen.barrier
    /\ EnterStage3

\* stage2_stream_rankings is exhausted without an all-complete signal
Stage2EndsEarly ==
    /\ t_pc = "stage2"
    /\ ~gen.barrier
    /\ EnterStage3

\* the if/elif chain of the Stage-3 loop: what is yielded for one event
Stage3Yields(event) ==
    IF event.type \in {"stage3_token", "stage3_error"}
    THEN <<event>>
    ELSE IF event.type = "stage3_complete"
    THEN <<[type |-> "stage3_complete", data |-> event.data]>>
    ELSE <<>>

\* one iteration of async for event in stage3_stream_synthesis(...)
Stage3Event(event, generator) ==
    /\ t_pc = "stage3"
    /\ sink' = sink \o Stage3Yields(event)
    /\ Produce(event)
    /\ stage3_result' = IF event.type = "stage3_complete"
                        THEN event.data ELSE stage3_result
    /\ gen' = generator
    /\ UNCHANGED <<t_pc, messages, title, is_first_message, title_task,
                   stage1_results, stage2_results, label_to_model,
                   aggregate_rankings, sessions, ballots, raised>>
    /\ UNCHANGED gatewayVars
    /\ UNCHANGED restVars
    /\ UNCHANGED chatVars

\* the stream call of the next candidate of the chain is invoked
Stage3Invoke ==
    /\ t_pc = "stage3"
    /\ ~gen.done
    /\ ~gen.running
    /\ gen.index <= Len(CHAIRMAN_MODELS)
    /\ calls' = [calls EXCEPT !.stage3 = Append(@, CHAIRMAN_MODELS[gen.index])]
    /\ UNCHANGED tokens_left
    /\ Stage3Event(Of("stage3_model_start", RosterSize + 1),
                   [gen EXCEPT !.running = TRUE, !.content = <<>>])

\* a content chunk of the running candidate
Stage3Token ==
    /\ t_pc = "stage3"
    /\ gen.running
    /\ tokens_left > 0
    /\ Observed(RosterSize + 1)
    /\ tokens_left' = tokens_left - 1
    /\ UNCHANGED calls
    /\ Stage3Event(Of("stage3_token", RosterSize + 1),
                   [gen EXCEPT !.content = Append(@, "t")])

\* the candidate's stream ended with an error chunk: on to the next one
Stage3CandidateError ==
    /\ t_pc = "stage3"
    /\ gen.running
    /\ UNCHANGED <<calls, tokens_left>>
    /\ Stage3Event([type |-> "stage3_error", message |-> "stream error"],
                   [gen EXCEPT !.running = FALSE, !.index = @ + 1,
                               !.content = <<>>])

\* the candidate's stream ended with no content: on to the next one
Stage3CandidateEmpty ==
    /\ t_pc = "stage3"
    /\ gen.running
    /\ gen.content = <<>>
    /\ UNCHANGED <<calls, tokens_left>>
    /\ Stage3Event([type |-> "stage3_error", message |-> "empty response"],
                   [gen EXCEPT !.running = FALSE, !.index = @ + 1])

\* the candidate's stream ended with content: the synthesized answer
Stage3CandidateComplete ==
    /\ t_pc = "stage3"
    /\ gen.running
    /\ gen.content # <<>>
    /\ UNCHANGED <<calls, tokens_left>>
    /\ Stage3Event([type |-> "stage3_complete",
                    data |-> [model |-> CHAIRMAN_MODELS[gen.index],
                              response |-> gen.content]],
                   [gen EXCEPT !.running = FALSE, !.done = TRUE])

\* variant of Stage3Ends: complete is sent before the title and the store
Stage3Ends_CompleteFirst ==
    /\ t_pc = "stage3"
    /\ ~gen.running
    /\ gen.done \/ gen.index > Len(CHAIRMAN_MODELS)
    /\ gen' = NoGenerator
    /\ sink' = Append(sink, [type |-> "complete"])
    /\ t_pc' = IF title_task # None THEN "title" ELSE "save"
    /\ UNCHANGED <<messages, title, is_first_message, title_task,
                   stage1_results, stage2_results, label_to_model,
                   aggregate_rankings, stage3_result, sessions, tokens_left,
                   ballots, calls, raised>>
    /\ UNCHANGED gatewayVars
    /\ UNCHANGED forwardVars
    /\ UNCHANGED restVars
    /\ UNCHANGED chatVars

\* stage3_stream_synthesis is exhausted: an answer, or no candidate left
Stage3Ends ==
    /\ t_pc = "stage3"
    /\ ~gen.running
    /\ gen.done \/ gen.index > Len(CHAIRMAN_MODELS)
    /\ gen' = NoGenerator
    /\ t_pc' = IF title_task # None THEN "title" ELSE "save"
    /\ UNCHANGED <<sink, messages, title, is_first_message, title_task,
                   stage1_results, stage2_results, label_to_model,
                   aggregate_rankings, stage3_result, sessions, tokens_left,
                   ballots, calls, raised>>
    /\ UNCHANGED gatewayVars
    /\ UNCHANGED forwardVars
    /\ UNCHANGED restVars
    /\ UNCHANGED chatVars

\* variant of AwaitTitle: title_complete is yielded before the title is
\* written to the store
AwaitTitle_YieldFirst ==
    /\ t_pc = "title"
    /\ sink' = Append(sink, [type |-> "title_complete"])
    /\ t_pc' = "title_done"
    /\ UNCHANGED <<gen, messages, title, is_first_message, title_task,
                   stage1_results, stage2_results, label_to_model,
                   aggregate_rankings, stage3_result, sessions, tokens_left,
                   ballots, calls, raised>>
    /\ UNCHANGED gatewayVars
    /\ UNCHANGED forwardVars
    /\ UNCHANGED restVars
    /\ UNCHANGED chatVars

\* title = await title_task; storage.update_conversation_title(..., title)
AwaitTitle ==
    /\ t_pc = "title"
    /\ title' = "generated"
    /\ t_pc' = "title_done"
    /\ UNCHANGED <<sink, gen, messages, is_first_message, title_task,
                   stage1_results, stage2_results, label_to_model,
                   aggregate_rankings, stage3_result, sessions, tokens_left,
                   ballots, calls, raised>>
    /\ UNCHANGED gatewayVars
    /\ UNCHANGED forwardVars
    /\ UNCHANGED restVars
    /\ UNCHANGED chatVars

\* yield {'type': 'title_complete', 'data': {'title': title}}
YieldTitleComplete ==
    /\ t_pc = "title_done"
    /\ sink' = Append(sink, [type |-> "title_complete"])
    /\ t_pc' = "save"
    /\ UNCHANGED <<gen, messages, title, is_first_message, title_task,
                   stage1_results, stage2_results, label_to_model,
                   aggregate_rankings, stage3_result, sessions, tokens_left,
                   ballots, calls, raised>>
    /\ UNCHANGED gatewayVars
    /\ UNCHANGED forwardVars
    /\ UNCHANGED restVars
    /\ UNCHANGED chatVars

\* storage.add_assistant_message(conversation_id, stage1_results, ...)
AddAssistantMessage ==
    /\ t_pc = "save"
    /\ messages' = Append(messages,
                          [role |-> "assistant", stage1 |-> stage1_results,
                           stage2 |-> stage2_results,
                           stage3 |-> stage3_result])
    /\ t_pc' = IF aggregate_rankings # <<>> THEN "leaderboard" ELSE "complete"
    /\ UNCHANGED <<sink, gen, title, is_first_message, title_task,
                   stage1_results, stage2_results, label_to_model,
                   aggregate_rankings, stage3_result, sessions, tokens_left,
                   ballots, calls, raised>>
    /\ UNCHANGED gatewayVars
    /\ UNCHANGED forwardVars
    /\ UNCHANGED restVars
    /\ UNCHANGED chatVars

\* if aggregate_rankings: leaderboard.record_session_rankings(...)
RecordSessionRankings ==
    /\ t_pc = "leaderboard"
    /\ sessions' = Append(sessions, aggregate_rankings)
    /\ t_pc' = "complete"
    /\ UNCHANGED <<sink, gen, messages, title, is_first_message, title_task,
                   stage1_results, stage2_results, label_to_model,
                   aggregate_rankings, stage3_result, tokens_left, ballots,
                   calls, raised>>
    /\ UNCHANGED gatewayVars
    /\ UNCHANGED forwardVars
    /\ UNCHANGED restVars
    /\ UNCHANGED chatVars

\* yield {'type': 'complete'}
YieldComplete ==
    /\ t_pc = "complete"
    /\ sink' = Append(sink, [type |-> "complete"])
    /\ t_pc' = "done"
    /\ UNCHANGED <<gen, messages, title, is_first_message, title_task,
                   stage1_results, stage2_results, label_to_model,
                   aggregate_rankings, stage3_result, sessions, tokens_left,
                   ballots, calls, raised>>
    /\ UNCHANGED gatewayVars
    /\ UNCHANGED forwardVars
    /\ UNCHANGED restVars
    /\ UNCHANGED chatVars

\* conversation = storage.get_conversation(...) of chat_with_chairman
ChatWithChairman ==
    /\ endpoint = "chat/stream"
    /\ t_pc = "request"
    /\ t_pc' = "chat_start"
    /\ UNCHANGED <<sink, gen, messages, title, is_first_message, title_task,
                   stage1_results, stage2_results, label_to_model,
                   aggregate_rankings, stage3_result, sessions, tokens_left,
                   ballots, calls, raised>>
    /\ UNCHANGED gatewayVars
    /\ UNCHANGED forwardVars
    /\ UNCHANGED restVars
    /\ UNCHANGED chatVars

\* section 4.4, chat-only entry point: the chain walk before its first candidate
ChatGenerator ==
    [stage |-> 4, index |-> 1, running |-> FALSE, content |-> <<>>,
     done |-> FALSE]

\* storage.add_user_message; yield chat_start; full_content = ""
BeginChat ==
    /\ t_pc = "chat_start"
    /\ messages' = Append(messages, [role |-> "user"])
    /\ sink' = Append(sink, [type |-> "chat_start"])
    /\ full_content' = <<>>
    /\ gen' = ChatGenerator
    /\ t_pc' = "chat"
    /\ UNCHANGED <<title, is_first_message, title_task, stage1_results,
                   stage2_results, label_to_model, aggregate_rankings,
                   stage3_result, sessions, tokens_left, ballots, calls,
                   raised, endpoint>>
    /\ UNCHANGED gatewayVars
    /\ UNCHANGED forwardVars
    /\ UNCHANGED restVars

\* the if/elif chain of the chat loop: what is yielded for one event
ChatYields(event) ==
    IF event.type \in {"chat_token", "chat_error", "chat_complete"}
    THEN <<event>>
    ELSE <<>>

\* variant of Accumulate: the text starts over when a candidate fails
Accumulate_RestartOnError(text, event) ==
    IF event.type = "chat_token" THEN text \o event.content
    ELSE IF event.type = "chat_error" THEN <<>>
    ELSE text

\* if event['type'] == 'chat_token': full_content += event['content']
Accumulate(text, event) ==
    IF event.type = "chat_token" THEN text \o event.content ELSE text

\* one iteration of async for event in chat_stream_response(...)
ChatEvent(event, generator) ==
    /\ t_pc = "chat"
    /\ sink' = sink \o ChatYields(event)
    /\ full_content' = Accumulate(full_content, event)
    /\ gen' = generator
    /\ UNCHANGED <<t_pc, messages, title, is_first_message, title_task,
                   stage1_results, stage2_results, label_to_model,
                   aggregate_rankings, stage3_result, sessions, ballots,
                   raised, endpoint>>
    /\ UNCHANGED gatewayVars
    /\ UNCHANGED forwardVars
    /\ UNCHANGED restVars

\* the text of one chat token
ChatTokens == {<<"a">>, <<"b">>}

\* the stream call of the next candidate of the chain is invoked
ChatInvoke ==
    /\ t_pc = "chat"
    /\ ~gen.done
    /\ ~gen.running
    /\ gen.index <= Len(CHAIRMAN_MODELS)
    /\ calls' = [calls EXCEPT !.stage3 = Append(@, CHAIRMAN_MODELS[gen.index])]
    /\ UNCHANGED tokens_left
    /\ ChatEvent([type |-> "chat_model_start"],
                 [gen EXCEPT !.running = TRUE, !.content = <<>>])

\* a content chunk of the running candidate
ChatToken ==
    \E content \in ChatTokens :
        /\ t_pc = "chat"
        /\ gen.running
        /\ tokens_left > 0
        /\ tokens_left' = tokens_left - 1
        /\ UNCHANGED calls
        /\ ChatEvent([type |-> "chat_token", content |-> content],
                     [gen EXCEPT !.content = @ \o content])

\* the candidate's stream ended with an error chunk: on to the next one
ChatCandidateError ==
    /\ t_pc = "chat"
    /\ gen.running
    /\ UNCHANGED <<calls, tokens_left>>
    /\ ChatEvent([type |-> "chat_error", message |-> "stream error"],
                 [gen EXCEPT !.running = FALSE, !.index = @ + 1,
                             !.content = <<>>])

\* the candidate's stream ended with no content: on to the next one
ChatCandidateEmpty ==
    /\ t_pc = "chat"
    /\ gen.running
    /\ gen.content = <<>>
    /\ UNCHANGED <<calls, tokens_left>>
    /\ ChatEvent([type |-> "chat_error", message |-> "empty response"],
                 [gen EXCEPT !.running = FALSE, !.index = @ + 1])

\* the candidate's stream ended with content
ChatCandidateComplete ==
    /\ t_pc = "chat"
    /\ gen.running
    /\ gen.content # <<>>
    /\ UNCHANGED <<calls, tokens_left>>
    /\ ChatEvent([type |-> "chat_complete",
                  model |-> CHAIRMAN_MODELS[gen.index]],
                 [gen EXCEPT !.running = FALSE, !.done = TRUE])

\* chat_stream_response is exhausted: an answer, or no candidate left
ChatEnds ==
    /\ t_pc = "chat"
    /\ ~gen.running
    /\ gen.done \/ gen.index > Len(CHAIRMAN_MODELS)
    /\ gen' = NoGenerator
    /\ t_pc' = "chat_save"
    /\ UNCHANGED <<sink, messages, title, is_first_message, title_task,
                   stage1_results, stage2_results, label_to_model,
                   aggregate_rankings, stage3_result, sessions, tokens_left,
                   ballots, calls, raised>>
    /\ UNCHANGED gatewayVars
    /\ UNCHANGED forwardVars
    /\ UNCHANGED restVars
    /\ UNCHANGED chatVars

\* storage.add_assistant_message(..., stage3={"model": "chat", ...})
AddChatMessage ==
    /\ t_pc = "chat_save"
    /\ messages' = Append(messages,
                          [role |-> "assistant", stage1 |-> <<>>,
                           stage2 |-> <<>>,
                           stage3 |-> [model |-> "chat",
                                       response |-> full_content]])
    /\ t_pc' = "complete"
    /\ UNCHANGED <<sink, gen, title, is_first_message, title_task,
                   stage1_results, stage2_results, label_to_model,
                   aggregate_rankings, stage3_result, sessions, tokens_left,
                   ballots, calls, raised>>
    /\ UNCHANGED gatewayVars
    /\ UNCHANGED forwardVars
    /\ UNCHANGED restVars
    /\ UNCHANGED chatVars

\* the steps of the try block that can raise: the store writes, the stage
\* generators, the title task and the leaderboard write
RaisingSteps ==
    {"start", "stage1", "stage2", "stage3", "title", "save", "leaderboard",
     "chat_start", "chat", "chat_save"}

\* except Exception as e: yield {'type': 'error', 'message': str(e)}
TurnRaises ==
    /\ t_pc \in RaisingSteps
    /\ sink' = Append(sink, [type |-> "error"])
    /\ raised' = t_pc
    /\ gen' = NoGenerator
    /\ t_pc' = "done"
    /\ UNCHANGED <<messages, title, is_first_message, title_task,
                   stage1_results, stage2_results, label_to_model,
                   aggregate_rankings, stage3_result, sessions, tokens_left,
                   ballots, calls>>
    /\ UNCHANGED gatewayVars
    /\ UNCHANGED forwardVars
    /\ UNCHANGED restVars
    /\ UNCHANGED chatVars

\* no gateway call of the first part is in progress
NoGatewayCall ==
    /\ api = None
    /\ max_retries = 0
    /\ retries = 0
    /\ should_retry = FALSE
    /\ finish_reason = None
    /\ pc = "loop"
    /\ yielded = <<>>
    /\ ended = None
    /\ connections = 0
    /\ waits = <<>>
    /\ attempts = <<>>
    /\ last_error = NoError
    /\ deltas = 0
    /\ q_pc = "start"
    /\ q_attempts = 0
    /\ q_result = NoneResult
    /\ q_failure = NoFailure

\* ranking texts of the voters: a full ordering, and text without a label
TurnBallots == {<<"A", "B">>, <<"no", "ranking">>}

InitTurnWith(texts) ==
    /\ NoGatewayCall
    /\ t_pc = "request"
    /\ sink = <<>>
    /\ messages \in {<<>>, EarlierTurn}
    /\ title = NewConversationTitle
    /\ is_first_message = FALSE
    /\ title_task = None
    /\ stage1_results = <<>>
    /\ stage2_results = <<>>
    /\ label_to_model = EmptyDict
    /\ aggregate_rankings = <<>>
    /\ stage3_result = EmptyDict
    /\ sessions = <<>>
    /\ gen = NoGenerator
    /\ tokens_left = MaxTokens
    /\ ballots = texts
    /\ calls = NoCalls
    /\ raised = None
    /\ endpoint \in {"message/stream", "chat/stream"}
    /\ full_content = <<>>
    /\ NoForward
    /\ NoRest

InitTurn == InitTurnWith(TurnBallots)

NextTurn ==
    \/ SendMessageStream
    \/ BeginStage1
    \/ Stage1ModelStart
    \/ Stage1Token
    \/ Stage1ModelDone
    \/ Stage1AllComplete
    \/ Stage1Ends
    \/ Stage1EndsEarly
    \/ Stage2ModelStart
    \/ Stage2Token
    \/ Stage2ModelComplete
    \/ Stage2ModelError
    \/ Stage2AllComplete
    \/ Stage2Ends
    \/ Stage2EndsEarly
    \/ Stage3Invoke
    \/ Stage3Token
    \/ Stage3CandidateError
    \/ Stage3CandidateEmpty
    \/ Stage3CandidateComplete
    \/ Stage3Ends
    \/ AwaitTitle
    \/ YieldTitleComplete
    \/ AddAssistantMessage
    \/ RecordSessionRankings
    \/ YieldComplete
    \/ ChatWithChairman
    \/ BeginChat
    \/ ChatInvoke
    \/ ChatToken
    \/ ChatCandidateError
    \/ ChatCandidateEmpty
    \/ ChatCandidateComplete
    \/ ChatEnds
    \/ AddChatMessage
    \/ TurnRaises

SpecTurn == InitTurn /\ [][NextTurn]_vars

\* ranking texts for the ranking stage alone: full orderings, a partial one,
\* text without a label, a repeated label, a label no response carries, and
\* an ordering with formatting noise
RankingBallots ==
    {<<"A", "B">>, <<"B", "A">>, <<"B">>, <<"no", "ranking">>,
     <<"A", "A", "B">>, <<"C", "A">>, <<"1.", "B", "2.", "A">>}

InitRanking ==
    /\ InitTurnWith(RankingBallots)
    /\ endpoint = "message/stream"

\* the turn up to the end of Stage 2, without token events
NextRanking ==
    \/ SendMessageStream
    \/ BeginStage1
    \/ Stage1ModelStart
    \/ Stage1ModelDone
    \/ Stage1AllComplete
    \/ Stage1Ends
    \/ Stage2ModelStart
    \/ Stage2ModelComplete
    \/ Stage2ModelError
    \/ Stage2AllComplete

SpecRanking == InitRanking /\ [][NextRanking]_vars

----------------------------------------------------------------------------
(* Properties of the streaming turn *)

Stage2Types ==
    {"stage2_start", "stage2_token", "stage2_model_complete",
     "stage2_model_error", "stage2_all_complete", "stage2_complete"}

Stage3Types ==
    {"stage3_start", "stage3_token", "stage3_error", "stage3_complete"}

\* the all-complete event of a stage, under either of its names
IsBarrier(event, stage) ==
    \/ stage = 1 /\ event.type \in {"stage1_all_complete", "stage1_complete"}
    \/ stage = 2 /\ event.type \in {"stage2_all_complete", "stage2_complete"}

BarrierBefore(i, stage) == \E j \in 1..(i - 1) : IsBarrier(sink[j], stage)

SinkTypes == {sink[i].type : i \in DOMAIN sink}

\* C11: no stage2_* event (stage2_start included) is emitted before the
\* Stage-1 all-complete event, and no stage3_* event before the Stage-2
\* all-complete event, whatever the stage generators do, one that ends
\* without its all-complete event included.
C11_StageBoundariesTotal ==
    \A i \in DOMAIN sink :
        /\ sink[i].type \in Stage2Types => BarrierBefore(i, 1)
        /\ sink[i].type \in Stage3Types => BarrierBefore(i, 2)

\* Stage 1 reported its full set and no entry of it is ok
Stage1AllFailed ==
    /\ Len(stage1_results) > 0
    /\ OkModels(stage1_results) = <<>>

\* C12: when Stage 1 finishes with zero ok responses the turn runs neither
\* Stage 2 nor Stage 3: no stage2_* or stage3_* event (the start events
\* included) is emitted and no ranking or chairman Gateway call is started.
C12_NoStage2Or3AfterAllFailed ==
    Stage1AllFailed =>
        /\ SinkTypes \cap (Stage2Types \cup Stage3Types) = {}
        /\ calls.stage2 = 0
        /\ calls.stage3 = <<>>

\* every candidate of the chain was invoked and none gave the answer
ChainExhausted ==
    /\ Len(calls.stage3) = Len(CHAIRMAN_MODELS)
    /\ DOMAIN stage3_result = {}
    /\ t_pc \in {"title", "save", "leaderboard", "complete", "done"}
    /\ raised # "stage3"

StageExhausted == Stage1AllFailed \/ ChainExhausted

\* C13: the turn ends with the turn-level error event exactly when a stage
\* is exhausted: all Stage-1 participants failed or every chairman candidate
\* failed gives the terminal event error, not complete; with no stage
\* exhausted (and no step raising) failures of single models give complete.
C13_ErrorIffStageExhausted ==
    t_pc = "done" =>
        /\ StageExhausted => Last(sink).type = "error"
        /\ (~StageExhausted /\ raised = None) => Last(sink).type = "complete"

TerminalTypes == {"complete", "error"}

\* C14: the event sequence of a streaming turn (council or chat-only) that
\* runs to its end contains exactly one terminal event, complete or error,
\* never both, and no event follows it, whichever step raises.
C14_ExactlyOneTerminalEvent ==
    /\ \A i \in DOMAIN sink :
          sink[i].type \in TerminalTypes => i = Len(sink) /\ t_pc = "done"
    /\ t_pc = "done" => Len(sink) > 0 /\ Last(sink).type \in TerminalTypes

\* the leaderboard write raised after all three stages and the store write
C14_Witness ==
    /\ t_pc = "done"
    /\ raised = "leaderboard"
    /\ "stage3_complete" \in SinkTypes
    /\ Last(sink).type = "error"
    /\ Cardinality({i \in DOMAIN sink : sink[i].type \in TerminalTypes}) = 1

\* the assistant messages this turn has appended to the store
AppendedTurns ==
    {i \in DOMAIN messages :
        messages[i].role = "assistant" /\ "stage1" \in DOMAIN messages[i]}

\* C15: a streaming turn appends its assistant message to the store exactly
\* once: after the three stages have resolved, or on a terminal failure
\* after the user message was stored (a failed title generation after
\* stage3_complete included) with the partial data; never while a stage runs.
C15_AssistantMessageAppendedOnce ==
    endpoint = "message/stream" =>
        /\ t_pc \in {"stage1", "stage2", "stage3"} => AppendedTurns = {}
        /\ (t_pc = "done" /\ raised # "start") =>
              Cardinality(AppendedTurns) = 1

\* the event types of section 4.5
DocumentedTaxonomy ==
    {"stage1_start", "stage1_token", "stage1_model_complete",
     "stage1_model_error", "stage1_all_complete", "stage2_start",
     "stage2_token", "stage2_model_complete", "stage2_model_error",
     "stage2_all_complete", "stage3_start", "stage3_token", "stage3_error",
     "stage3_complete", "title_complete", "complete", "error"}

\* the same with the barrier events under the names event_generator gives them
EmittedTaxonomy ==
    (DocumentedTaxonomy \ {"stage1_all_complete", "stage2_all_complete"})
        \cup {"stage1_complete", "stage2_complete"}

\* C16 as stated: every event the streaming turn emits has a type of the
\* documented taxonomy; the barrier events reach the sink as
\* stage1_all_complete and stage2_all_complete.
C16_TypesInDocumentedTaxonomy ==
    endpoint = "message/stream" => SinkTypes \subseteq DocumentedTaxonomy

\* C16 amended: every event the streaming turn emits has a type of the
\* taxonomy in which the barrier events are named stage1_complete and
\* stage2_complete: the all-complete events of the stage generators reach the
\* sink under these names, and other event types of a generator are dropped.
C16_TypesInEmittedTaxonomy ==
    endpoint = "message/stream" =>
        /\ SinkTypes \subseteq EmittedTaxonomy
        /\ Len(stage1_results) > 0 => "stage1_complete" \in SinkTypes
        /\ DOMAIN label_to_model # {} => "stage2_complete" \in SinkTypes

\* a complete first turn: both barrier events, a title and the three stages
C16_Witness ==
    /\ t_pc = "done"
    /\ {"stage1_complete", "stage2_complete", "stage3_complete",
        "stage1_model_error", "title_complete", "complete"} \subseteq SinkTypes

\* positions of the sink holding the Stage-1 all-complete event
Stage1Barriers == {i \in DOMAIN sink : IsBarrier(sink[i], 1)}

\* events of the given type emitted before position i
CountBefore(i, type) ==
    Cardinality({j \in 1..(i - 1) : sink[j].type = type})

CountStatus(data, status) ==
    Cardinality({k \in DOMAIN data : data[k].status = status})

Stage2Barriers == {i \in DOMAIN sink : IsBarrier(sink[i], 2)}

\* the models whose Stage-1 entry is ok
OkSet == Range(OkModels(stage1_results))

LabelIndex(label) == CHOOSE i \in DOMAIN Labels : Labels[i] = label

C19_AggregateWithinOkSet ==
    \A i \in Stage2Barriers :
        LET aggregate == sink[i].metadata.aggregate_rankings
        IN  /\ Len(aggregate) <= Cardinality(OkSet)
            /\ \A k \in DOMAIN aggregate : aggregate[k].model_id \in OkSet
            /\ \A j, k \in DOMAIN aggregate :
                  aggregate[j].model_id = aggregate[k].model_id => j = k
            /\ \A k \in DOMAIN aggregate : aggregate[k].vote_count >= 1
            /\ aggregate = aggregate_rankings

\* one voter failed, the other repeated a label; both models are ranked
C19_Witness ==
    /\ t_pc = "stage2"
    /\ gen.barrier
    /\ Stage2Barriers # {}
    /\ \E m \in DOMAIN gen.task : gen.task[m] = "error"
    /\ \E m \in DOMAIN gen.task : gen.raw_text[m] = <<"A", "A", "B">>
    /\ Len(aggregate_rankings) = 2

\* the chain of config.py: the primary model, then the two fallbacks
PrimaryThenFallbacks ==
    <<"anthropic/claude-3.5-sonnet", "google/gemini-2.0-flash-001",
      "openai/gpt-4o-2024-11-20">>

Stage3Failures ==
    Cardinality({i \in DOMAIN sink : sink[i].type = "stage3_error"})

\* C20: Stage 3 walks the chairman chain in order, one candidate at a time;
\* the answer of the turn is the output of the first candidate whose
\* cumulative content is non-empty, and no later candidate is invoked.
C20_FirstCandidateWithContentWins ==
    endpoint = "message/stream" =>
        /\ Len(calls.stage3) <= Len(PrimaryThenFallbacks)
        /\ \A i \in DOMAIN calls.stage3 :
              calls.stage3[i] = PrimaryThenFallbacks[i]
        /\ t_pc = "stage3" =>
              /\ Len(calls.stage3) =
                    IF gen.running \/ gen.done THEN gen.index
                    ELSE gen.index - 1
              /\ Stage3Failures = IF gen.done THEN gen.index - 1
                                  ELSE Len(calls.stage3)
                                       - (IF gen.running THEN 1 ELSE 0)
        /\ DOMAIN stage3_result # {} =>
              /\ stage3_result.model = Last(calls.stage3)
              /\ stage3_result.response # <<>>
              /\ Stage3Failures = Len(calls.stage3) - 1
              /\ \E i \in DOMAIN sink :
                    /\ sink[i].type = "stage3_complete"
                    /\ sink[i].data = stage3_result

\* the primary candidate failed, the first fallback answered: the turn is
\* complete and the second fallback was never invoked
C20_Witness ==
    /\ t_pc = "done"
    /\ Last(sink).type = "complete"
    /\ DOMAIN stage3_result # {}
    /\ stage3_result.model = "google/gemini-2.0-flash-001"
    /\ calls.stage3 = <<"anthropic/claude-3.5-sonnet",
                        "google/gemini-2.0-flash-001">>

----------------------------------------------------------------------------
(* The multiplexer as a forwarding layer: the streaming turn up to the end *)
(* of Stage 3, with the events of one model carrying the model and their   *)
(* serial number, and room for two token events.                           *)

InitForward ==
    /\ NoGatewayCall
    /\ t_pc = "request"
    /\ sink = <<>>
    /\ messages = EarlierTurn
    /\ title = NewConversationTitle
    /\ is_first_message = FALSE
    /\ title_task = None
    /\ stage1_results = <<>>
    /\ stage2_results = <<>>
    /\ label_to_model = EmptyDict
    /\ aggregate_rankings = <<>>
    /\ stage3_result = EmptyDict
    /\ sessions = <<>>
    /\ gen = NoGenerator
    /\ tokens_left = MaxTokens + 1
    /\ ballots = {<<"A", "B">>}
    /\ calls = NoCalls
    /\ raised = None
    /\ endpoint = "message/stream"
    /\ full_content = <<>>
    /\ detail \in 1..(RosterSize + 1)
    /\ produced = <<>>
    /\ NoRest

NextForward ==
    \/ SendMessageStream
    \/ BeginStage1
    \/ Stage1ModelStart
    \/ Stage1Token
    \/ Stage1ModelDone
    \/ Stage1AllComplete
    \/ Stage1Ends
    \/ Stage1EndsEarly
    \/ Stage2ModelStart
    \/ Stage2Token
    \/ Stage2ModelComplete
    \/ Stage2ModelError
    \/ Stage2AllComplete
    \/ Stage2Ends
    \/ Stage2EndsEarly
    \/ Stage3Invoke
    \/ Stage3Token
    \/ Stage3CandidateError
    \/ Stage3CandidateEmpty
    \/ Stage3CandidateComplete
    \/ Stage3Ends

SpecForward == InitForward /\ [][NextForward]_vars

\* the event types the loops pass on with json.dumps(event)
ForwardedTypes ==
    {"stage1_token", "stage1_model_complete", "stage1_model_error",
     "stage2_token", "stage2_model_complete", "stage2_model_error",
     "stage3_token", "stage3_error"}

IsForwarded(event) == event.type \in ForwardedTypes

\* C21 (as stated): the multiplexer is a pure forwarding layer: every token,
\* model_complete, model_error and error event a stage generator produced
\* about a model is in the sink unchanged, once and in the generator's order,
\* and no stage event is dropped: every event the generators produced about
\* the model has reached the sink.
C21_NoStageEventDropped ==
    detail # 0 =>
        /\ SelectSeq(sink, HasPayload) = SelectSeq(produced, IsForwarded)
        /\ \A i \in DOMAIN produced :
               \E j \in DOMAIN sink : sink[j] = produced[i]

\* C21 (amended): the token, model_complete, model_error and stage3_error
\* events the stage generators produced about a model are in the sink
\* unchanged, exactly once and in the order the generators produced them, and
\* the sink holds no other event about the model; the events of any other
\* type (the per-model start signals) are not passed on.
C21_ForwardedUnchangedInOrder ==
    detail # 0 =>
        /\ SelectSeq(sink, HasPayload) = SelectSeq(produced, IsForwarded)
        /\ \A i \in DOMAIN produced :
               ~IsForwarded(produced[i])
                   => \A j \in DOMAIN sink : sink[j] # produced[i]

\* two token events of one model and a model's terminal event are in the
\* sink, and Stage 3 has produced an event
C21_Witness ==
    /\ detail # 0
    /\ t_pc = "stage3"
    /\ \E i, j \in DOMAIN sink :
           /\ i < j
           /\ sink[i].type = "stage1_token"
           /\ sink[j].type = "stage1_token"
           /\ sink[i].model = sink[j].model
    /\ \E k \in DOMAIN produced : produced[k].type = "stage1_model_start"

----------------------------------------------------------------------------
(* Title generation in the streaming turn *)

\* the conversation had no messages when the request came
EmptyAtRequest ==
    ~(Len(messages) >= Len(EarlierTurn)
        /\ SubSeq(messages, 1, Len(EarlierTurn)) = EarlierTurn)

TitleCompletes == {i \in DOMAIN sink : sink[i].type = "title_complete"}

\* the events of the three stages
StageTypes ==
    {"stage1_start", "stage1_token", "stage1_model_complete",
     "stage1_model_error", "stage1_complete"} \cup Stage2Types \cup Stage3Types

\* C22: in a streaming turn title generation is started only when the
\* conversation had no messages at request time; title_complete is emitted
\* at most once, after every stage event and before the terminal complete
\* event, and only when the title is already written to the store; a turn
\* on a non-empty conversation never starts the task nor emits title_complete.
C22_TitleOnlyOnFirstMessage ==
    /\ title_task # None => EmptyAtRequest /\ is_first_message
    /\ Cardinality(TitleCompletes) <= 1
    /\ \A i \in TitleCompletes :
           /\ EmptyAtRequest
           /\ title_task # None
           /\ title = "generated"
           /\ "stage3_start" \in {sink[j].type : j \in 1..(i - 1)}
           /\ \A j \in DOMAIN sink :
                  /\ sink[j].type \in StageTypes => j < i
                  /\ sink[j].type = "complete" => j > i
    /\ title # NewConversationTitle => title_task # None
    /\ ~EmptyAtRequest => title = NewConversationTitle

\* a turn on an empty conversation has emitted title_complete after a Stage-3
\* answer and then complete
C22_Witness ==
    /\ t_pc = "done"
    /\ Last(sink).type = "complete"
    /\ TitleCompletes # {}
    /\ "stage3_complete" \in SinkTypes
    /\ title = "generated"

----------------------------------------------------------------------------
(* query_models_parallel: one query_model call per model, gathered *)

\* the lists of models a call is made with, a model named twice included
RECURSIVE ListsOver(_, _)
ListsOver(S, n) ==
    IF n = 0 THEN {<<>>}
    ELSE LET shorter == ListsOver(S, n - 1)
         IN  shorter \cup {Append(l, x) : l \in {s \in shorter : Len(s) = n - 1},
                                          x \in S}

\* a task that has not returned
Pending == [type |-> "pending"]

\* the dict query_model returns for what the upstream answered to model m
Answer(m) == [type |-> "dict", content |-> m]

\* how one query_model call ends (the except clauses return None)
QueryOutcomes == {"ok", "timeout", "http", "other"}

QueryResult(m, outcome) == IF outcome = "ok" THEN Answer(m) ELSE NoneResult

\* tasks = [query_model(model, messages) for model in models]
QueryModelsParallel(models) ==
    [pc |-> "gather", models |-> models,
     tasks |-> [i \in DOMAIN models |-> Pending],
     outcome |-> [i \in DOMAIN models |-> None],
     finished |-> <<>>,
     result |-> None]

\* variant of gather: the results in the order the tasks finished
gather_AsCompleted(tasks, finished) ==
    [i \in DOMAIN tasks |-> tasks[finished[i]]]

\* asyncio.gather(*tasks): the results in the order of the tasks
gather(tasks, finished) ==
    [i \in DOMAIN tasks |-> tasks[i]]

\* {model: response for model, response in zip(models, responses)}
Zip(models, responses) ==
    [m \in Range(models) |->
        responses[CHOOSE i \in DOMAIN models :
                      /\ models[i] = m
                      /\ \A j \in DOMAIN models : models[j] = m => j <= i]]

\* one of the query_model calls returns
ParallelQueryReturns ==
    /\ parallel.pc = "gather"
    /\ \E i \in DOMAIN parallel.models, outcome \in QueryOutcomes :
        /\ parallel.tasks[i] = Pending
        /\ parallel' =
               [parallel EXCEPT
                   !.tasks[i] = QueryResult(parallel.models[i], outcome),
                   !.outcome[i] = outcome,
                   !.finished = Append(@, i)]
    /\ UNCHANGED restOfParallel

\* responses = await asyncio.gather(*tasks); return {...}
GatherReturns ==
    /\ parallel.pc = "gather"
    /\ \A i \in DOMAIN parallel.models : parallel.tasks[i] # Pending
    /\ LET responses == gather(parallel.tasks, parallel.finished)
       IN  parallel' = [parallel EXCEPT
                           !.pc = "done",
                           !.result = Zip(parallel.models, responses)]
    /\ UNCHANGED restOfParallel

InitParallel ==
    /\ NoGatewayCall
    /\ NoTurn
    /\ NoRestExcept("parallel")
    /\ \E models \in ListsOver(Roster, RosterSize) :
           parallel = QueryModelsParallel(models)

NextParallel ==
    \/ ParallelQueryReturns
    \/ GatherReturns

SpecParallel == InitParallel /\ [][NextParallel]_vars

IsDistinct(list) ==
    \A i, j \in DOMAIN list : list[i] = list[j] => i = j

\* C23: query_models_parallel over distinct models returns only after every
\* per-model call has finished, a map with exactly one entry per requested
\* model; the entries of the models whose call failed (timeout, HTTP error,
\* any exception), and only those, are None, every other entry is the
\* model's own response, whichever calls fail and in whatever order the
\* calls finish.
C23_OneEntryPerModel ==
    (parallel.pc = "done" /\ IsDistinct(parallel.models)) =>
        /\ Len(parallel.finished) = Len(parallel.models)
        /\ DOMAIN parallel.result = Range(parallel.models)
        /\ Cardinality(DOMAIN parallel.result) = Len(parallel.models)
        /\ \A i \in DOMAIN parallel.models :
               LET m == parallel.models[i]
               IN  /\ parallel.outcome[i] # "ok"
                          <=> parallel.result[m] = NoneResult
                   /\ parallel.outcome[i] = "ok"
                          => parallel.result[m] = Answer(m)

\* a call over two distinct models has returned: the second finished first
\* and succeeded, the first timed out
C23_Witness ==
    /\ parallel.pc = "done"
    /\ parallel.models = <<1, 2>>
    /\ parallel.finished = <<2, 1>>
    /\ parallel.outcome[1] = "timeout"
    /\ parallel.result[1] = NoneResult
    /\ parallel.result[2] = Answer(2)

----------------------------------------------------------------------------
(* Triage: analyze_for_triage and continue_triage *)

\* user texts, as tuples of characters
TriageQueries == {<<"h", "i">>, <<"b", "u", "y", "?">>, <<"?">>}

TriageResponses == {<<>>, <<"n", "o", "w">>}

NoConstraints == [who |-> None, goal |-> None, budget |-> None, risk |-> None]

PreviousConstraints == {NoConstraints, [NoConstraints EXCEPT !.who = "team"]}

\* what the triage model's content parses to: a JSON object with all keys
\* (ready or not), an empty JSON object, or text that is not JSON
TriageContents == {"ready", "not_ready", "object", "not_json"}

\* f"{original_query}\n\nAdditional context: {user_response}"
WithAdditionalContext(original_query, user_response) ==
    original_query \o <<"\n", "\n", "A", "d", "d", "i", "t", "i", "o", "n", "a", "l", " ", "c", "o", "n", "t", "e", "x", "t", ":", " ">> \o user_response

\* variant of AnalyzeFailed: nothing is known, so nothing is ready
AnalyzeFailed_Closed(user_input) ==
    [ready |-> FALSE, constraints |-> NoConstraints,
     missing |-> <<"who", "goal", "budget", "risk">>,
     questions |-> "asked", enhanced_query |-> user_input]

\* if response is None: the fallback of analyze_for_triage
AnalyzeFailed(user_input) ==
    [ready |-> TRUE, constraints |-> NoConstraints, missing |-> <<>>,
     questions |-> None, enhanced_query |-> user_input,
     error |-> "Triage analysis failed, proceeding with original query"]

\* if response is None: the fallback of continue_triage
ContinueFailed(original_query, previous_constraints, user_response) ==
    [ready |-> TRUE, constraints |-> previous_constraints, missing |-> <<>>,
     questions |-> None,
     enhanced_query |-> WithAdditionalContext(original_query, user_response),
     error |-> "Follow-up analysis failed, proceeding with available information"]

\* json.loads of the content and the setdefault calls; what the model wrote
\* for a key is the model's, a key it left out gets the default
ParsedTriage(content, constraints, query) ==
    IF content = "ready"
    THEN [ready |-> TRUE, constraints |-> [NoConstraints EXCEPT !.who = "model"],
          missing |-> <<>>, questions |-> None,
          enhanced_query |-> <<"m", "o", "d", "e", "l">>]
    ELSE IF content = "not_ready"
    THEN [ready |-> FALSE, constraints |-> [NoConstraints EXCEPT !.who = "model"],
          missing |-> <<"goal">>, questions |-> "asked",
          enhanced_query |-> <<"m", "o", "d", "e", "l">>]
    ELSE [ready |-> FALSE, constraints |-> constraints, missing |-> <<>>,
          questions |-> None, enhanced_query |-> query]

\* analyze_for_triage(user_input): the query, then the three ways out
AnalyzeForTriage ==
    /\ triage.pc = "call"
    /\ \E response \in {NoneResult} \cup
                       {[type |-> "dict", content |-> c] : c \in TriageContents} :
        triage' =
            [triage EXCEPT
                !.pc = "done",
                !.function = "analyze_for_triage",
                !.response = response,
                !.result =
                    IF response = NoneResult
                    THEN AnalyzeFailed(triage.original_query)
                    ELSE IF response.content = "not_json"
                    THEN [ready |-> FALSE, constraints |-> NoConstraints,
                          missing |-> <<"who", "goal", "budget", "risk">>,
                          questions |-> "asked",
                          enhanced_query |-> triage.original_query]
                    ELSE ParsedTriage(response.content, EmptyDict,
                                      triage.original_query)]
    /\ UNCHANGED restOfTriage

\* continue_triage(original_query, previous_constraints, user_response)
ContinueTriage ==
    /\ triage.pc = "call"
    /\ \E response \in {NoneResult} \cup
                       {[type |-> "dict", content |-> c] : c \in TriageContents} :
        triage' =
            [triage EXCEPT
                !.pc = "done",
                !.function = "continue_triage",
                !.response = response,
                !.result =
                    IF response = NoneResult
                    THEN ContinueFailed(triage.original_query,
                                        triage.previous_constraints,
                                        triage.user_response)
                    ELSE IF response.content = "not_json"
                    THEN [ready |-> TRUE,
                          constraints |-> triage.previous_constraints,
                          missing |-> <<>>, questions |-> None,
                          enhanced_query |->
                              WithAdditionalContext(triage.original_query,
                                                    triage.user_response)]
                    ELSE ParsedTriage(response.content,
                                      triage.previous_constraints,
                                      triage.original_query)]
    /\ UNCHANGED restOfTriage

InitTriage ==
    /\ NoGatewayCall
    /\ NoTurn
    /\ NoRestExcept("triage")
    /\ \E original_query \in TriageQueries, user_response \in TriageResponses,
          previous_constraints \in PreviousConstraints :
           triage = [pc |-> "call", function |-> None,
                     original_query |-> original_query,
                     user_response |-> user_response,
                     previous_constraints |-> previous_constraints,
                     response |-> Pending, result |-> Pending]

NextTriage ==
    \/ AnalyzeForTriage
    \/ ContinueTriage

SpecTriage == InitTriage /\ [][NextTriage]_vars

\* C24: triage fails open: when the triage model call returned no result,
\* analyze_for_triage and continue_triage return ready = true, an empty
\* missing list and an enhanced_query that contains the original query
\* unchanged.
C24_TriageFailsOpen ==
    (triage.pc = "done" /\ triage.response = NoneResult) =>
        /\ triage.result.ready = TRUE
        /\ triage.result.missing = <<>>
        /\ Contains(triage.original_query, triage.result.enhanced_query)

\* continue_triage has returned after a failed call, with an enhanced query
\* longer than the original one
C24_Witness ==
    /\ triage.pc = "done"
    /\ triage.function = "continue_triage"
    /\ triage.response = NoneResult
    /\ triage.user_response # <<>>
    /\ triage.result.ready
    /\ Len(triage.result.enhanced_query) > Len(triage.original_query)

----------------------------------------------------------------------------
(* The curator: apply_suggestion on an existing context file.  The file is *)
(* a sequence of lines; a line is a marker and the text after it.          *)

\* lines of a context file
MaxLines == 3

Line(marker, name) == [marker |-> marker, name |-> name]

BlankLine == Line("", "")

\* headings of level 2 and 3, a line of body text, a blank line, the date
\* line, and a line that reads "#1, 6 Plan"
ContextLines ==
    {Line("##", "Plan"), Line("##", "Team"), Line("###", "Notes"),
     Line("", "old"), BlankLine, Line(">", "2024-01-01"),
     Line("#1, 6", "Plan")}

\* a Markdown heading: one to six '#', then the name
IsHeading(line) == line.marker \in {"#", "##", "###"}

\* the number of characters of a marker
MarkerLength(marker) ==
    IF marker = "#" THEN 1
    ELSE IF marker = "##" THEN 2
    ELSE IF marker = "###" THEN 3
    ELSE IF marker = "#1, 6" THEN 5
    ELSE 0

\* rf'^(#{1,6})\s+{re.escape(section_name)}\s*$': in the f-string {1,6} is
\* the tuple (1, 6), so the pattern is ^(#(1, 6))\s+name\s*$, in which
\* (1, 6) is a group: it matches a line that reads "#1, 6 name"
SectionPattern(line, section_name) ==
    /\ line.marker = "#1, 6"
    /\ line.name = section_name

\* rf'^#{{{1},{level}}}\s+': one to level '#', then whitespace
NextSectionPattern(line, level) ==
    /\ IsHeading(line)
    /\ MarkerLength(line.marker) <= level

\* re.finditer(section_pattern, content, re.MULTILINE): the matching lines
Matches(content, section_name) ==
    {i \in DOMAIN content : SectionPattern(content[i], section_name)}

Min(S) == CHOOSE x \in S : \A y \in S : x <= y

\* str.rstrip and str.lstrip on whole lines
RECURSIVE RStrip(_)
RStrip(lines) ==
    IF lines # <<>> /\ lines[Len(lines)] = BlankLine
    THEN RStrip(SubSeq(lines, 1, Len(lines) - 1))
    ELSE lines

RECURSIVE LStrip(_)
LStrip(lines) ==
    IF lines # <<>> /\ lines[1] = BlankLine THEN LStrip(Tail(lines))
    ELSE lines

\* text.rstrip() + '\n\n': the stripped lines and one blank line (two when
\* nothing is left of the text)
ThenBlank(lines) ==
    IF RStrip(lines) = <<>> THEN <<BlankLine, BlankLine>>
    ELSE Append(RStrip(lines), BlankLine)

\* the lines after line i up to the next section, and what follows
SectionEnd(content, i) ==
    LET level == MarkerLength(content[i].marker)
        next == {j \in (i + 1)..Len(content) :
                     NextSectionPattern(content[j], level)}
    IN  IF next = {} THEN Len(content) + 1 ELSE Min(next)

\* content.replace(current_text, proposed_text, 1) for a text that is a line
ReplaceFirst(content, current_text, proposed_text) ==
    LET i == Min({k \in DOMAIN content : content[k] = Line("", current_text)})
    IN  [content EXCEPT ![i] = Line("", proposed_text)]

InContent(current_text, content) ==
    \E k \in DOMAIN content : content[k] = Line("", current_text)

\* the branch suggestion_type == 'update'
ApplyUpdate(content, s) ==
    IF s.current_text # None /\ InContent(s.current_text, content)
    THEN ReplaceFirst(content, s.current_text, s.proposed_text)
    ELSE LET matches == Matches(content, s.section)
         IN  IF matches # {}
             THEN LET match == Min(matches)
                      section_end == SectionEnd(content, match)
                  IN  IF section_end <= Len(content)
                      THEN ThenBlank(SubSeq(content, 1, match))
                               \o <<Line("", s.proposed_text), BlankLine>>
                               \o LStrip(SubSeq(content, section_end,
                                                Len(content)))
                      ELSE ThenBlank(SubSeq(content, 1, match))
                               \o <<Line("", s.proposed_text)>>
             ELSE ThenBlank(content)
                      \o <<Line("##", s.section), BlankLine,
                           Line("", s.proposed_text)>>

\* the branch suggestion_type == 'add' (after_section defaults to section)
ApplyAdd(content, s) ==
    LET matches == Matches(content, s.section)
    IN  IF matches # {}
        THEN LET insert_pos == SectionEnd(content, Min(matches))
             IN  ThenBlank(SubSeq(content, 1, insert_pos - 1))
                     \o <<Line("", s.proposed_text), BlankLine>>
                     \o LStrip(SubSeq(content, insert_pos, Len(content)))
        ELSE ThenBlank(content) \o <<Line("", s.proposed_text)>>

\* re.sub of the "Last Updated" date
UpdateDate(content) ==
    [i \in DOMAIN content |->
        IF content[i].marker = ">" THEN Line(">", "today") ELSE content[i]]

Suggestions ==
    [type : {"update", "add", "remove"}, section : {"Plan"},
     proposed_text : {"new"}, current_text : {None, "old", "gone"}]

\* apply_suggestion(business_id, suggestion) on a context file that exists;
\* the write succeeds or fails
ApplySuggestion ==
    /\ curator.pc = "call"
    /\ \E written \in BOOLEAN :
        LET s == curator.suggestion
            content == curator.content
            known == s.type \in {"update", "add"}
            new_content ==
                UpdateDate(IF s.type = "update" THEN ApplyUpdate(content, s)
                           ELSE ApplyAdd(content, s))
        IN  curator' =
                [curator EXCEPT
                    !.pc = "done",
                    !.content = IF known /\ written THEN new_content ELSE @,
                    !.success = known /\ written]
    /\ UNCHANGED restOfCurator

InitCurator ==
    /\ NoGatewayCall
    /\ NoTurn
    /\ NoRestExcept("curator")
    /\ \E content \in ListsOver(ContextLines, MaxLines),
          suggestion \in Suggestions :
           curator = [pc |-> "call", content |-> content, before |-> content,
                      suggestion |-> suggestion, success |-> FALSE]

NextCurator == ApplySuggestion

SpecCurator == InitCurator /\ [][NextCurator]_vars

\* the headings of a file that carry a name
HeadingsNamed(content, section_name) ==
    {i \in DOMAIN content :
        IsHeading(content[i]) /\ content[i].name = section_name}

\* an update whose current_text is not in the file, on a file that has a
\* heading named as the section, was applied
UpdateOfExistingSection ==
    /\ curator.pc = "done"
    /\ curator.success
    /\ curator.suggestion.type = "update"
    /\ ~(curator.suggestion.current_text # None
           /\ InContent(curator.suggestion.current_text, curator.before))
    /\ HeadingsNamed(curator.before, curator.suggestion.section) # {}

\* C25: an update whose current_text does not occur in the context file but
\* whose section heading exists replaces the body of that section with
\* proposed_text and appends no second heading of that name: the file holds
\* as many headings named section_name after the call as before, and the
\* proposed text is the line that follows the section's heading.
C25_UpdateReplacesSectionBody ==
    UpdateOfExistingSection =>
        LET name == curator.suggestion.section
            i == Min(HeadingsNamed(curator.content, name))
        IN  /\ Cardinality(HeadingsNamed(curator.content, name))
                   = Cardinality(HeadingsNamed(curator.before, name))
            /\ i + 2 <= Len(curator.content)
            /\ curator.content[i + 2] = Line("", curator.suggestion.proposed_text)

----------------------------------------------------------------------------
(* The chat-only turn on its own, with room for two chat tokens *)

InitChat ==
    /\ NoGatewayCall
    /\ t_pc = "request"
    /\ sink = <<>>
    /\ messages \in {<<>>, EarlierTurn}
    /\ title = NewConversationTitle
    /\ is_first_message = FALSE
    /\ title_task = None
    /\ stage1_results = <<>>
    /\ stage2_results = <<>>
    /\ label_to_model = EmptyDict
    /\ aggregate_rankings = <<>>
    /\ stage3_result = EmptyDict
    /\ sessions = <<>>
    /\ gen = NoGenerator
    /\ tokens_left = MaxTokens + 1
    /\ ballots = {}
    /\ calls = NoCalls
    /\ raised = None
    /\ endpoint = "chat/stream"
    /\ full_content = <<>>
    /\ NoForward
    /\ NoRest

NextChat ==
    \/ ChatWithChairman
    \/ BeginChat
    \/ ChatInvoke
    \/ ChatToken
    \/ ChatCandidateError
    \/ ChatCandidateEmpty
    \/ ChatCandidateComplete
    \/ ChatEnds
    \/ AddChatMessage
    \/ YieldComplete
    \/ TurnRaises

SpecChat == InitChat /\ [][NextChat]_vars

\* the content of the chat_token events of a sequence, concatenated in order
RECURSIVE TokensText(_)
TokensText(events) ==
    IF events = <<>> THEN <<>>
    ELSE LET rest == TokensText(SubSeq(events, 1, Len(events) - 1))
             last == events[Len(events)]
         IN  IF last.type = "chat_token" THEN rest \o last.content ELSE rest

\* the assistant messages the chat turn has appended
ChatMessages ==
    {i \in DOMAIN messages :
        /\ messages[i].role = "assistant"
        /\ "stage3" \in DOMAIN messages[i]
        /\ messages[i].stage3.model = "chat"}

\* C26: in the chat-only endpoint the assistant message is appended at most
\* once, only after the chairman stream has ended; a turn that does not
\* raise has appended it exactly once before its complete event; and the
\* stored response is the concatenation, in emission order, of the content
\* of every chat_token event forwarded in the turn, chat_error or not.
C26_StoredResponseIsForwardedText ==
    endpoint = "chat/stream" =>
        /\ Cardinality(ChatMessages) <= 1
        /\ t_pc \in {"request", "chat_start", "chat", "chat_save"}
               => ChatMessages = {}
        /\ "complete" \in SinkTypes => Cardinality(ChatMessages) = 1
        /\ (t_pc = "done" /\ raised = None) => "complete" \in SinkTypes
        /\ \A i \in ChatMessages :
               /\ gen = NoGenerator
               /\ messages[i].stage3.response = TokensText(sink)
               /\ messages[i].stage1 = <<>>
               /\ messages[i].stage2 = <<>>

\* a chat turn has completed after a first candidate that sent a token and
\* failed and a second one that sent another token: both are stored, in order
C26_Witness ==
    /\ endpoint = "chat/stream"
    /\ t_pc = "done"
    /\ raised = None
    /\ "chat_error" \in SinkTypes
    /\ \E i \in ChatMessages : messages[i].stage3.response = <<"a", "b">>
    /\ Last(sink).type = "complete"

----------------------------------------------------------------------------
(* The leaderboard: record_session_rankings on the leaderboard file.  The  *)
(* cap of 1000 records is out of reach of MaxCalls, so the records of the  *)
(* file are the sessions recorded so far.                                  *)

\* calls of record_session_rankings in one run
MaxCalls == 2

\* the file _load_leaderboard returns when there is none
EmptyLeaderboard ==
    [records |-> <<>>,
     aggregates |-> [overall |-> EmptyDict, by_department |-> EmptyDict]]

\* entries of an aggregate list: {model, average_rank}; the last one lacks
\* its average_rank
RankingEntries ==
    {[model |-> "a", average_rank |-> 1], [model |-> "a", average_rank |-> 2],
     [model |-> "b", average_rank |-> 1], [model |-> "b"]}

\* the department of a request: none, or a named one
Departments == {"", "marketing"}

NoStats == [total_score |-> 0, sessions |-> 0, wins |-> 0]

\* variant of Credit: a win for every entry with the winner's average rank
Credit_BestRank(table, ranking, first) ==
    LET model == ranking.model
        old == IF model \in DOMAIN table THEN table[model] ELSE NoStats
        new == [total_score |-> old.total_score + ranking.average_rank,
                sessions |-> old.sessions + 1,
                wins |-> old.wins
                    + IF ranking.average_rank = first.average_rank
                      THEN 1 ELSE 0]
    IN  [m \in DOMAIN table \cup {model} |->
            IF m = model THEN new ELSE table[m]]

\* the body of the loops of _update_aggregates: the model's entry is made if
\* missing, its total_score and sessions grow, and its wins if
\* ranking == aggregate_rankings[0]
Credit(table, ranking, first) ==
    LET model == ranking.model
        old == IF model \in DOMAIN table THEN table[model] ELSE NoStats
        new == [total_score |-> old.total_score + ranking.average_rank,
                sessions |-> old.sessions + 1,
                wins |-> old.wins + IF ranking = first THEN 1 ELSE 0]
    IN  [m \in DOMAIN table \cup {model} |->
            IF m = model THEN new ELSE table[m]]

\* for ranking in aggregate_rankings: ...
RECURSIVE UpdateTable(_, _, _)
UpdateTable(table, rankings, first) ==
    IF rankings = <<>> THEN table
    ELSE UpdateTable(Credit(table, Head(rankings), first), Tail(rankings),
                     first)

\* variant of update_aggregates: the department table is credited for the
\* winner only
update_aggregates_WinnerOnly(aggregates, department, rankings_list) ==
    LET by == aggregates.by_department
        dept_data == IF department \in DOMAIN by THEN by[department]
                     ELSE EmptyDict
        first == rankings_list[1]
    IN  [overall |-> UpdateTable(aggregates.overall, rankings_list, first),
         by_department |->
             [d \in DOMAIN by \cup {department} |->
                 IF d = department
                 THEN UpdateTable(dept_data, <<first>>, first)
                 ELSE by[d]]]

\* _update_aggregates(data, department, aggregate_rankings)
update_aggregates(aggregates, department, rankings_list) ==
    LET by == aggregates.by_department
        dept_data == IF department \in DOMAIN by THEN by[department]
                     ELSE EmptyDict
        first == rankings_list[1]
    IN  [overall |-> UpdateTable(aggregates.overall, rankings_list, first),
         by_department |->
             [d \in DOMAIN by \cup {department} |->
                 IF d = department
                 THEN UpdateTable(dept_data, rankings_list, first)
                 ELSE by[d]]]

\* ranking["average_rank"] raises KeyError
Malformed(rankings_list) ==
    \E i \in DOMAIN rankings_list :
        "average_rank" \notin DOMAIN rankings_list[i]

\* department or "standard"
OrStandard(department) == IF department = "" THEN "standard" ELSE department

\* record_session_rankings(conversation_id, department, business_id,
\* aggregate_rankings): returns at once on an empty list; raises out of
\* _update_aggregates before the save; or saves, unless the write fails
record_session_rankings ==
    /\ leaderboard.pc = "ready"
    /\ Len(leaderboard.calls) < MaxCalls
    /\ \E department \in Departments,
          rankings_list \in ListsOver(RankingEntries, 2),
          saved \in BOOLEAN :
        LET data == leaderboard.file
            outcome == IF rankings_list = <<>> THEN "returned"
                       ELSE IF Malformed(rankings_list) THEN "raised"
                       ELSE IF saved THEN "saved" ELSE "not saved"
            record == [department |-> OrStandard(department),
                       rankings |-> rankings_list]
        IN  leaderboard' =
                [leaderboard EXCEPT
                    !.calls = Append(@, [department |-> department,
                                         rankings_list |-> rankings_list,
                                         outcome |-> outcome]),
                    !.file =
                        IF outcome = "saved"
                        THEN [records |-> Append(data.records, record),
                              aggregates |->
                                  update_aggregates(data.aggregates,
                                                    OrStandard(department),
                                                    rankings_list)]
                        ELSE data]
    /\ UNCHANGED restOfLeaderboard

InitLeaderboard ==
    /\ NoGatewayCall
    /\ NoTurn
    /\ NoRestExcept("leaderboard")
    /\ leaderboard = [pc |-> "ready", file |-> EmptyLeaderboard, calls |-> <<>>]

NextLeaderboard == record_session_rankings

SpecLeaderboard == InitLeaderboard /\ [][NextLeaderboard]_vars

\* the sum of a field of a table over its models
RECURSIVE SumOver(_, _, _)
SumOver(table, models, field) ==
    IF models = {} THEN 0
    ELSE LET m == CHOOSE x \in models : TRUE
         IN  table[m][field] + SumOver(table, models \ {m}, field)

Total(table, field) == SumOver(table, DOMAIN table, field)

\* the sessions recorded, all or those of one department
Recorded == leaderboard.file.records

RecordedFor(department) ==
    SelectSeq(Recorded, LAMBDA r : r.department = department)

\* the calls that saved a session
SavedCalls == SelectSeq(leaderboard.calls, LAMBDA c : c.outcome = "saved")

\* the sessions of a list whose position 0 is model
WonBy(records, model) ==
    Len(SelectSeq(records, LAMBDA r : r.rankings[1].model = model))

\* the sessions of a list that rank model, once per entry
RankedIn(records, model) ==
    LET entries(r) == Len(SelectSeq(r.rankings, LAMBDA e : e.model = model))
        RECURSIVE count(_)
        count(rs) == IF rs = <<>> THEN 0
                     ELSE entries(Head(rs)) + count(Tail(rs))
    IN  count(records)

\* every recorded aggregate lists distinct model ids
DistinctModelIds ==
    \A k \in DOMAIN Recorded :
        IsDistinct([i \in DOMAIN Recorded[k].rankings |->
                       Recorded[k].rankings[i].model])

\* the win bookkeeping of one table against the sessions it covers
OneWinPerSession(table, records) ==
    /\ \A m \in DOMAIN table :
           /\ table[m].wins <= table[m].sessions
           /\ table[m].wins = WonBy(records, m)
    /\ Total(table, "wins") = Len(records)

\* C27: when the recorded aggregates list distinct model ids, every recorded
\* session credits exactly one win, to the model at position 0: in the
\* overall table and in each department table every model has wins <=
\* sessions and the wins add up to the number of sessions recorded (for that
\* department); the sessions recorded are the calls with a non-empty list
\* that were saved, so a call with an empty list changes nothing.
C27_OneWinPerSession ==
    leaderboard.pc = "ready" =>
        /\ Len(Recorded) = Len(SavedCalls)
        /\ \A k \in DOMAIN Recorded :
               /\ Recorded[k].rankings = SavedCalls[k].rankings_list
               /\ Recorded[k].rankings # <<>>
        /\ DistinctModelIds =>
               /\ OneWinPerSession(leaderboard.file.aggregates.overall, Recorded)
               /\ \A d \in DOMAIN leaderboard.file.aggregates.by_department :
                      OneWinPerSession(
                          leaderboard.file.aggregates.by_department[d],
                          RecordedFor(d))

\* every call of the run was made, the sessions recorded list distinct model
\* ids, and one of them ranks two models that tie on the average rank
C27_Witness ==
    /\ leaderboard.pc = "ready"
    /\ Len(leaderboard.calls) = MaxCalls
    /\ DistinctModelIds
    /\ \E k \in DOMAIN Recorded :
           /\ Len(Recorded[k].rankings) = 2
           /\ Recorded[k].rankings[1].average_rank
                  = Recorded[k].rankings[2].average_rank
    /\ Total(leaderboard.file.aggregates.overall, "wins") = Len(Recorded)
    /\ Total(leaderboard.file.aggregates.overall, "sessions") > Len(Recorded)

\* C28: after any sequence of calls, over any departments and from an empty
\* leaderboard, the overall sessions and the overall wins of every model are
\* the sums over all departments of the model's sessions and wins there.
C28_OverallIsSumOfDepartments ==
    leaderboard.pc = "ready" =>
        LET overall == leaderboard.file.aggregates.overall
            by == leaderboard.file.aggregates.by_department
            In(d, m, field) == IF m \in DOMAIN by[d] THEN by[d][m][field] ELSE 0
            RECURSIVE Sum(_, _, _)
            Sum(ds, m, field) ==
                IF ds = {} THEN 0
                ELSE LET d == CHOOSE x \in ds : TRUE
                     IN  In(d, m, field) + Sum(ds \ {d}, m, field)
            models == DOMAIN overall
                          \cup UNION {DOMAIN by[d] : d \in DOMAIN by}
        IN  \A m \in models :
                /\ m \in DOMAIN overall
                /\ overall[m].sessions = Sum(DOMAIN by, m, "sessions")
                /\ overall[m].wins = Sum(DOMAIN by, m, "wins")
                /\ overall[m].sessions = RankedIn(Recorded, m)

\* a model has sessions and wins in two departments, one of the sessions
\* naming it twice
C28_Witness ==
    /\ leaderboard.pc = "ready"
    /\ Cardinality(DOMAIN leaderboard.file.aggregates.by_department) = 2
    /\ \E m \in DOMAIN leaderboard.file.aggregates.overall :
           /\ \A d \in DOMAIN leaderboard.file.aggregates.by_department :
                  /\ m \in DOMAIN leaderboard.file.aggregates.by_department[d]
                  /\ leaderboard.file.aggregates.by_department[d][m].wins > 0
           /\ leaderboard.file.aggregates.overall[m].sessions = 3

----------------------------------------------------------------------------
(* The store: the conversations and messages tables of backend/storage.py  *)
(* and the calls the endpoints make on them.                               *)

\* rows of the messages table in one run
MaxMessages == 2

ConversationIds == {"c1", "c2"}

UserIds == {"u1", "u2"}

\* the rows of the messages table that belong to a conversation
MessagesOf(table, conversation_id) ==
    SelectSeq(table, LAMBDA row : row.conversation_id = conversation_id)

\* get_conversation(conversation_id): None without a row in conversations,
\* else the conversation with its messages
get_conversation(db, conversation_id) ==
    IF conversation_id \notin DOMAIN db.conversations THEN NoneResult
    ELSE [type |-> "conversation",
          id |-> conversation_id,
          user_id |-> db.conversations[conversation_id].user_id,
          messages |-> MessagesOf(db.messages, conversation_id)]

\* variant of Listed: the conversations without messages are skipped and kept
Listed_KeepEmpty(db, user_id) ==
    [conversations |-> db.conversations, messages |-> db.messages]

\* the tables after list_conversations(user_id): every conversation of the
\* user without messages is deleted
Listed(db, user_id) ==
    [conversations |->
         [c \in {x \in DOMAIN db.conversations :
                    \/ db.conversations[x].user_id # user_id
                    \/ MessagesOf(db.messages, x) # <<>>}
             |-> db.conversations[c]],
     messages |-> db.messages]

\* the tables after add_user_message(conversation_id, content, user_id)
WithUserMessage(db, conversation_id) ==
    [db EXCEPT !.messages =
        Append(@, [conversation_id |-> conversation_id, role |-> "user"])]

\* the tables after add_assistant_message(conversation_id, ...)
WithAssistantMessage(db, conversation_id) ==
    [db EXCEPT !.messages =
        Append(@, [conversation_id |-> conversation_id, role |-> "assistant"])]

\* create_conversation(conversation_id, user_id), with a fresh uuid4
create_conversation ==
    /\ store.pc = "ready"
    /\ \E conversation_id \in ConversationIds \ store.created,
          user_id \in UserIds :
        store' = [store EXCEPT
            !.db.conversations =
                [c \in DOMAIN @ \cup {conversation_id} |->
                    IF c = conversation_id THEN [user_id |-> user_id]
                    ELSE @[c]],
            !.created = @ \cup {conversation_id}]
    /\ UNCHANGED restOfStore

\* list_conversations(user_id)
list_conversations ==
    /\ store.pc = "ready"
    /\ \E user_id \in UserIds :
        store' = [store EXCEPT !.db = Listed(@, user_id)]
    /\ UNCHANGED restOfStore

\* send_message_stream up to its first store write: the conversation is
\* looked up, a missing one is answered 404 "Conversation not found", and
\* the user message of a found one is added
SendMessage ==
    /\ store.pc = "ready"
    /\ \E conversation_id \in store.created :
        LET conversation == get_conversation(store.db, conversation_id)
        IN  IF conversation = NoneResult
            THEN store' = [store EXCEPT !.not_found = @ \cup {conversation_id}]
            ELSE /\ Len(store.db.messages) < MaxMessages
                 /\ store' = [store EXCEPT
                        !.db = WithUserMessage(@, conversation_id)]
    /\ UNCHANGED restOfStore

\* delete_conversation(conversation_id)
delete_conversation ==
    /\ store.pc = "ready"
    /\ \E conversation_id \in ConversationIds :
        store' = [store EXCEPT
            !.db = IF conversation_id \in DOMAIN @.conversations
                   THEN [conversations |->
                             [c \in DOMAIN @.conversations \ {conversation_id}
                                 |-> @.conversations[c]],
                         messages |->
                             SelectSeq(@.messages,
                                 LAMBDA row :
                                     row.conversation_id # conversation_id)]
                   ELSE @,
            !.deleted = @ \cup {conversation_id}]
    /\ UNCHANGED restOfStore

EmptyTables == [conversations |-> EmptyDict, messages |-> <<>>]

InitStore ==
    /\ NoGatewayCall
    /\ NoTurn
    /\ NoRestExcept("store")
    /\ store = [pc |-> "ready", db |-> EmptyTables, created |-> {},
                deleted |-> {}, not_found |-> {}]

NextStore ==
    \/ create_conversation
    \/ list_conversations
    \/ SendMessage
    \/ delete_conversation

SpecStore == InitStore /\ [][NextStore]_vars

\* C29: list_conversations does not change the stored conversations: a
\* conversation that was created and on which delete_conversation was never
\* called is still returned by get_conversation, so a message sent to it is
\* never answered "Conversation not found".
C29_ListingKeepsConversations ==
    store.pc = "ready" =>
        \A c \in store.created \ store.deleted :
            /\ get_conversation(store.db, c) # NoneResult
            /\ c \notin store.not_found

----------------------------------------------------------------------------
(* Streaming turns running at once on one conversation of the store.  The  *)
(* three stages of a turn are one step here; they touch neither the store  *)
(* nor the other turns.                                                    *)

\* requests to message/stream on the conversation in one run
MaxTurns == 2

TurnIds == 1..MaxTurns

\* the conversation all the turns are sent to
Shared == "c1"

\* one turn moves to pc and changes its fields
TurnStep(t, new) == turns' = [turns EXCEPT !.turn[t] = new]

\* send_message_stream up to its return: the conversation is looked up, a
\* missing one is answered 404, and is_first_message is taken from the
\* messages it has now
TurnRequest(t) ==
    /\ turns.pc = "running"
    /\ turns.turn[t].pc = "request"
    /\ LET conversation == get_conversation(store.db, Shared)
       IN  IF conversation = NoneResult
           THEN TurnStep(t, [turns.turn[t] EXCEPT !.pc = "not found"])
           ELSE TurnStep(t, [turns.turn[t] EXCEPT
                    !.pc = "generator",
                    !.is_first_message = Len(conversation.messages) = 0])
    /\ UNCHANGED store
    /\ UNCHANGED restOfTurns

\* variant of StartTitleTask: the title task is started when the store holds
\* no other message of the conversation than the one just added
StartTitleTask_AskStore(t, table) ==
    Len(MessagesOf(table, Shared)) = 1

\* if is_first_message: title_task = asyncio.create_task(...)
StartTitleTask(t, table) == turns.turn[t].is_first_message

\* the generator starts: the user message is added and the title task is
\* started or not
TurnBegins(t) ==
    /\ turns.pc = "running"
    /\ turns.turn[t].pc = "generator"
    /\ store' = [store EXCEPT !.db = WithUserMessage(@, Shared)]
    /\ TurnStep(t, [turns.turn[t] EXCEPT
            !.pc = "stages",
            !.title_task = StartTitleTask(t, store'.db.messages)])
    /\ UNCHANGED restOfTurns

\* the three stages run to stage3_complete
TurnStages(t) ==
    /\ turns.pc = "running"
    /\ turns.turn[t].pc = "stages"
    /\ TurnStep(t, [turns.turn[t] EXCEPT
            !.pc = "title",
            !.sent = @ \o <<"stage1_complete", "stage2_complete",
                            "stage3_complete">>])
    /\ UNCHANGED store
    /\ UNCHANGED restOfTurns

\* if title_task: the title is awaited, written and title_complete is sent;
\* then the assistant message is added and complete is sent
TurnEnds(t) ==
    /\ turns.pc = "running"
    /\ turns.turn[t].pc = "title"
    /\ store' = [store EXCEPT !.db = WithAssistantMessage(@, Shared)]
    /\ TurnStep(t, [turns.turn[t] EXCEPT
            !.pc = "done",
            !.sent = @ \o (IF turns.turn[t].title_task
                           THEN <<"title_complete">> ELSE <<>>)
                       \o <<"complete">>])
    /\ UNCHANGED restOfTurns

\* an exception in the generator: error is sent and the turn ends
TurnFails(t) ==
    /\ turns.pc = "running"
    /\ turns.turn[t].pc \in {"stages", "title"}
    /\ TurnStep(t, [turns.turn[t] EXCEPT !.pc = "done",
                                         !.sent = Append(@, "error")])
    /\ UNCHANGED store
    /\ UNCHANGED restOfTurns

\* the conversation exists, empty or with one earlier turn, and every turn
\* is a request that has not been handled yet
InitTurns ==
    /\ NoGatewayCall
    /\ NoTurn
    /\ NoRestExcept("turns")
    /\ \E earlier \in {<<>>, <<[conversation_id |-> Shared, role |-> "user"],
                           [conversation_id |-> Shared, role |-> "assistant"]>>} :
        store = [pc |-> "ready",
                 db |-> [conversations |->
                             [c \in {Shared} |-> [user_id |-> "u1"]],
                         messages |-> earlier],
                 created |-> {Shared}, deleted |-> {}, not_found |-> {}]
    /\ turns = [pc |-> "running",
                turn |-> [t \in TurnIds |->
                    [pc |-> "request", is_first_message |-> FALSE,
                     title_task |-> FALSE, sent |-> <<>>]]]

NextTurns ==
    \E t \in TurnIds :
        \/ TurnRequest(t)
        \/ TurnBegins(t)
        \/ TurnStages(t)
        \/ TurnEnds(t)
        \/ TurnFails(t)

SpecTurns == InitTurns /\ [][NextTurns]_vars

\* C30: in any interleaving of streaming turns on one conversation, two
\* turns started while it is still empty included, at most one turn starts
\* title generation and at most one sends title_complete.
C30_OneTitlePerConversation ==
    turns.pc = "running" =>
        /\ Cardinality({t \in TurnIds : turns.turn[t].title_task}) <= 1
        /\ Cardinality({t \in TurnIds :
               \E i \in DOMAIN turns.turn[t].sent :
                   turns.turn[t].sent[i] = "title_complete"}) <= 1

====
